---- MODULE Spec2Model ----
(***************************************************************************)
(* Model of the pre-trade Risk Gate of the trading-bot back end            *)
(* (RiskManagementService, OrderController.createOrder).                   *)
(*                                                                         *)
(* Numbers.  A JavaScript value is a record [t, v]: t = "num" with the     *)
(* number in v, or t = "undefined" / "NaN" / "Infinity" / "-Infinity".     *)
(* Fractions of the account balance (0.02, 0.05, ...) are held in basis    *)
(* points, that is in units of 1/BasisPoints, so 0.02 is 200.              *)
(*                                                                         *)
(* Storage.  The Sequelize models are the repository collaborators of the  *)
(* gate: a table is the sequence of its rows in insertion order, and a     *)
(* row carries the attributes the gate's queries read.  The Order model    *)
(* declares no realizedPnl attribute, so a row may read undefined there.   *)
(* The Position model declares no isOpen attribute: the positions table    *)
(* that sequelize.sync creates from it has no such column, one created by  *)
(* the migrations, which the sources do not hold, may have it.             *)
(***************************************************************************)
EXTENDS Integers, Sequences, FiniteSets, TLC

VARIABLES
    users,      \* User table: id -> [exists, riskSettings]
    orders,     \* Order table: rows [user_id, createdAt, realizedPnl, by]
    positions,  \* Position table: [isOpenColumn, rows], rows [user_id, isOpen]
    now,        \* the clock read by new Date()
    req,        \* createOrder requests in flight: id -> request record
    call,       \* last direct call of a gate function and its result
    kelly,      \* last call of calculateOptimalPositionSize and its result
    indicators, \* last call of TechnicalIndicatorsService: input, result
    strategy,   \* last call of TradingStrategyService: input, result
    backtest    \* StrategyController.runBacktest: its locals at the loop head

vars == <<users, orders, positions, now, req, call, kelly, indicators, strategy,
          backtest>>

----------------------------------------------------------------------------
(* Bounds of the model *)

MaxUsers == 2
MaxReqs == 2
MaxNow == 5
MaxRows == 2
MaxOpen == 4
TicksPerDay == 2
DaysPerMonth == 2

UserIds == 1..MaxUsers
Reqs == 1..MaxReqs

----------------------------------------------------------------------------
(* JavaScript values and the operators the gate applies to them *)

Num(n) == [t |-> "num", v |-> n]
Undefined == [t |-> "undefined", v |-> 0]
NaN == [t |-> "NaN", v |-> 0]
PosInfinity == [t |-> "Infinity", v |-> 0]
NegInfinity == [t |-> "-Infinity", v |-> 0]

IsNum(x) == x.t = "num"

\* a * b on numbers; undefined or NaN operands give NaN
Times2(a, b) == IF IsNum(a) /\ IsNum(b) THEN Num(a.v * b.v) ELSE NaN

\* a <= b: false as soon as one side is NaN or undefined
Lte(a, b) == IsNum(a) /\ IsNum(b) /\ a.v <= b.v

\* a > b: false as soon as one side is NaN or undefined
Gt(a, b) == IsNum(a) /\ IsNum(b) /\ a.v > b.v

\* x || d: undefined, NaN and 0 are falsy
OrDefault(x, d) == IF x.t = "num" /\ x.v # 0 THEN x ELSE d

----------------------------------------------------------------------------
(* Program constants *)

BasisPoints == 100 * 100
totalBalance == 10000
DefaultMaxPositionSize == 200
DefaultMaxDailyLoss == 500
DefaultMaxMonthlyLoss == 2000
maxLeverage == 10
maxOpenPositions == 3

\* value / totalBalance, in basis points
Ratio(x) == IF IsNum(x) THEN Num((x.v * BasisPoints) \div totalBalance) ELSE NaN

----------------------------------------------------------------------------
(* Check records: {valid, value, limit, message} *)

Check(valid, value, limit, message) ==
    [valid |-> valid, value |-> value, limit |-> limit, message |-> message]

\* the record a check returns from its catch block: {valid: false, message}
CheckError(message) == Check(FALSE, Undefined, Undefined, message)

\* a check that has not run (yet)
NotRun == Check(FALSE, Undefined, Undefined, "")

----------------------------------------------------------------------------
(* Calendar: setHours(0,0,0,0) and setDate(1) on the clock *)

StartOfDay(t) == t - (t % TicksPerDay)

StartOfMonth(t) == t - (t % (TicksPerDay * DaysPerMonth))

----------------------------------------------------------------------------
(* RiskManagementService *)

\* validatePositionSize(userId, orderData)
ValidatePositionSizeMutant(usrs, userId, orderData) ==
    IF ~usrs[userId].exists
    THEN CheckError("Error validando tamano de posicion")
    ELSE LET maxPositionSize ==
                 OrDefault(usrs[userId].riskSettings.maxPositionSize,
                           Num(DefaultMaxPositionSize))
             positionValue == Times2(orderData.quantity, orderData.price)
             positionSizePercentage == Ratio(positionValue)
         IN  Check(Lte(positionSizePercentage, maxPositionSize)
                      /\ positionSizePercentage # maxPositionSize,
                   positionSizePercentage,
                   maxPositionSize,
                   IF Gt(positionSizePercentage, maxPositionSize)
                   THEN "Tamano de posicion excede el limite"
                   ELSE "Tamano de posicion valido")
ValidatePositionSize(usrs, userId, orderData) ==
    IF ~usrs[userId].exists
    THEN CheckError("Error validando tamano de posicion")
    ELSE LET maxPositionSize ==
                 OrDefault(usrs[userId].riskSettings.maxPositionSize,
                           Num(DefaultMaxPositionSize))
             positionValue == Times2(orderData.quantity, orderData.price)
             positionSizePercentage == Ratio(positionValue)
         IN  Check(Lte(positionSizePercentage, maxPositionSize),
                   positionSizePercentage,
                   maxPositionSize,
                   IF Gt(positionSizePercentage, maxPositionSize)
                   THEN "Tamano de posicion excede el limite"
                   ELSE "Tamano de posicion valido")

\* Order.findAll({where: {user_id: userId, createdAt: {[Op.gte]: since}}})
FindOrdersSinceMutant(ords, userId, since) ==
    SelectSeq(ords, LAMBDA o: o.createdAt >= since)
FindOrdersSince(ords, userId, since) ==
    SelectSeq(ords, LAMBDA o: o.user_id = userId /\ o.createdAt >= since)

\* rows.reduce((total, order) => total + (order.realizedPnl || 0), 0)
RECURSIVE SumPnl(_)
SumPnl(rows) ==
    IF rows = <<>>
    THEN 0
    ELSE SumPnl(SubSeq(rows, 1, Len(rows) - 1))
         + OrDefault(rows[Len(rows)].realizedPnl, Num(0)).v

\* Math.abs(Math.min(pnl, 0)) / totalBalance
LossPercentage(pnl) == Ratio(Num(IF pnl < 0 THEN -pnl ELSE 0))

\* validateDailyLoss(userId, orderData)
ValidateDailyLoss(usrs, ords, t, userId) ==
    IF ~usrs[userId].exists
    THEN CheckError("Error validando perdida diaria")
    ELSE LET maxDailyLoss ==
                 OrDefault(usrs[userId].riskSettings.maxDailyLoss,
                           Num(DefaultMaxDailyLoss))
             today == StartOfDay(t)
             dailyOrders == FindOrdersSince(ords, userId, today)
             dailyPnL == SumPnl(dailyOrders)
             dailyLossPercentage == LossPercentage(dailyPnL)
         IN  Check(Lte(dailyLossPercentage, maxDailyLoss),
                   dailyLossPercentage,
                   maxDailyLoss,
                   IF Gt(dailyLossPercentage, maxDailyLoss)
                   THEN "Perdida diaria excede el limite"
                   ELSE "Perdida diaria dentro del limite")

\* validateMonthlyLoss(userId, orderData)
ValidateMonthlyLoss(usrs, ords, t, userId) ==
    IF ~usrs[userId].exists
    THEN CheckError("Error validando perdida mensual")
    ELSE LET maxMonthlyLoss ==
                 OrDefault(usrs[userId].riskSettings.maxMonthlyLoss,
                           Num(DefaultMaxMonthlyLoss))
             firstDayOfMonth == StartOfMonth(t)
             monthlyOrders == FindOrdersSince(ords, userId, firstDayOfMonth)
             monthlyPnL == SumPnl(monthlyOrders)
             monthlyLossPercentage == LossPercentage(monthlyPnL)
         IN  Check(Lte(monthlyLossPercentage, maxMonthlyLoss),
                   monthlyLossPercentage,
                   maxMonthlyLoss,
                   IF Gt(monthlyLossPercentage, maxMonthlyLoss)
                   THEN "Perdida mensual excede el limite"
                   ELSE "Perdida mensual dentro del limite")

\* validateLeverage(orderData)
ValidateLeverage(orderData) ==
    LET leverage == OrDefault(orderData.leverage, Num(1))
    IN  Check(Lte(leverage, Num(maxLeverage)),
              leverage,
              Num(maxLeverage),
              IF Gt(leverage, Num(maxLeverage))
              THEN "Apalancamiento excede el limite"
              ELSE "Apalancamiento valido")

\* symbol.includes(asset): a symbol is the sequence of the asset codes it is
\* written with, "BTCUSDT" being <<"BTC", "USDT">>
Includes(symbol, asset) == \E i \in DOMAIN symbol.parts : symbol.parts[i] = asset

\* validateMarketHours(symbol); symbol.includes throws on a missing symbol
ValidateMarketHoursMutant(symbol) ==
    IF ~symbol.defined
    THEN Check(TRUE, Undefined, Undefined, "Error validando horarios de mercado")
    ELSE Check(TRUE, Undefined, Undefined, "Mercado abierto (crypto)")
ValidateMarketHours(symbol) ==
    IF ~symbol.defined
    THEN CheckError("Error validando horarios de mercado")
    ELSE LET isCrypto == Includes(symbol, "USDT") \/ Includes(symbol, "BTC")
                         \/ Includes(symbol, "ETH")
         IN  IF isCrypto
             THEN Check(TRUE, Undefined, Undefined, "Mercado abierto (crypto)")
             ELSE Check(TRUE, Undefined, Undefined,
                        "Validacion de horarios no implementada")

\* Position.findAll({where: {user_id: userId, isOpen: true}}): the query
\* is rejected by the database when the table has no isOpen column
FindOpenPositions(poss, userId) ==
    IF poss.isOpenColumn
    THEN [rejected |-> FALSE,
          rows |-> SelectSeq(poss.rows, LAMBDA p: p.user_id = userId /\ p.isOpen)]
    ELSE [rejected |-> TRUE, rows |-> <<>>]

\* validateCorrelation(userId, newSymbol)
ValidateCorrelation(poss, userId) ==
    LET found == FindOpenPositions(poss, userId)
        openPositions == found.rows
    IN  IF found.rejected
        THEN CheckError("Error validando correlacion")
        ELSE Check(Len(openPositions) < maxOpenPositions,
                   Num(Len(openPositions)),
                   Num(maxOpenPositions),
                   IF Len(openPositions) >= maxOpenPositions
                   THEN "Maximo numero de posiciones abiertas alcanzado"
                   ELSE "Numero de posiciones dentro del limite")

\* the validations object of validateOrderRisk before any check has run
NoValidations ==
    [positionSize |-> NotRun, dailyLoss |-> NotRun, monthlyLoss |-> NotRun,
     leverage |-> NotRun, marketHours |-> NotRun]

\* Object.values(validations).some(v => !v.valid)
HasErrors(validations) == \E k \in DOMAIN validations : ~validations[k].valid

\* the verdict validateOrderRisk returns once its checks have run
Verdict(validations) ==
    [valid |-> ~HasErrors(validations),
     defined |-> TRUE,
     validations |-> validations,
     message |-> IF HasErrors(validations)
                 THEN "Operacion rechazada por limites de riesgo"
                 ELSE "Operacion aprobada"]

\* the verdict of the catch block: {valid: false, message}, no validations
VerdictError ==
    [valid |-> FALSE, defined |-> FALSE, validations |-> NoValidations,
     message |-> "Error en validacion de riesgo"]

\* no verdict yet
NoVerdict ==
    [valid |-> FALSE, defined |-> FALSE, validations |-> NoValidations,
     message |-> ""]

\* validateOrderRisk(userId, orderData) run against one state of the tables
ValidateOrderRisk(usrs, ords, t, userId, orderData) ==
    IF ~usrs[userId].exists
    THEN VerdictError
    ELSE Verdict(
           [positionSize |-> ValidatePositionSize(usrs, userId, orderData),
            dailyLoss |-> ValidateDailyLoss(usrs, ords, t, userId),
            monthlyLoss |-> ValidateMonthlyLoss(usrs, ords, t, userId),
            leverage |-> ValidateLeverage(orderData),
            marketHours |-> ValidateMarketHours(orderData.symbol)])

----------------------------------------------------------------------------
(* Inputs: request bodies, risk settings, table contents *)

Symbol(parts) == [defined |-> TRUE, parts |-> parts]
NoSymbol == [defined |-> FALSE, parts |-> <<>>]
BTCUSDT == Symbol(<<"BTC", "USDT">>)
AAPL == Symbol(<<"AAPL">>)

\* orderData = {...req.body, user_id: req.user.userId}: the fields the gate reads
OrderData(quantity, price, leverage, symbol) ==
    [quantity |-> quantity, price |-> price, leverage |-> leverage,
     symbol |-> symbol]

\* user.riskSettings, a limit the user has not set being undefined
RiskSettings(ps, dl, ml, lev, op) ==
    [maxPositionSize |-> ps, maxDailyLoss |-> dl, maxMonthlyLoss |-> ml,
     maxLeverage |-> lev, maxOpenPositions |-> op]

NoSettings == RiskSettings(Undefined, Undefined, Undefined, Undefined, Undefined)

User(settings) == [exists |-> TRUE, riskSettings |-> settings]
NoUser == [exists |-> FALSE, riskSettings |-> NoSettings]

OrderRow(userId, createdAt, realizedPnl, by) ==
    [user_id |-> userId, createdAt |-> createdAt, realizedPnl |-> realizedPnl,
     by |-> by]

\* a position of a user, open or closed
PositionRow(userId, isOpen) == [user_id |-> userId, isOpen |-> isOpen]

\* the positions table: whether it has the isOpen column, and its rows
PositionTable(isOpenColumn, rows) == [isOpenColumn |-> isOpenColumn, rows |-> rows]

\* n rows r
Rows(n, r) == [i \in 1..n |-> r]

\* request bodies of the createOrder requests
Bodies ==
    { OrderData(Num(1), Num(100), Undefined, BTCUSDT),
      OrderData(Num(1), Num(300), Num(20), NoSymbol) }

----------------------------------------------------------------------------
(* OrderController.createOrder, one action per await *)

NoResponse ==
    [status |-> 0, success |-> FALSE, message |-> "", hasValidations |-> FALSE,
     validations |-> NoValidations, hasData |-> FALSE]

\* res.status(400).json({success: false, message, validations})
RiskRejection(riskValidation) ==
    [status |-> 400, success |-> FALSE, message |-> riskValidation.message,
     hasValidations |-> riskValidation.defined,
     validations |-> riskValidation.validations, hasData |-> FALSE]

\* res.status(400).json({success: false, message})
CorrelationRejection(correlationValidation) ==
    [status |-> 400, success |-> FALSE,
     message |-> correlationValidation.message, hasValidations |-> FALSE,
     validations |-> NoValidations, hasData |-> FALSE]

\* res.status(201).json({success: true, message, data: order})
Created ==
    [status |-> 201, success |-> TRUE, message |-> "Orden creada exitosamente",
     hasValidations |-> FALSE, validations |-> NoValidations, hasData |-> TRUE]

\* res.status(500).json({success: false, message})
ServerError ==
    [status |-> 500, success |-> FALSE, message |-> "Error al crear la orden",
     hasValidations |-> FALSE, validations |-> NoValidations, hasData |-> FALSE]

NoRequest ==
    [pc |-> "new", userId |-> 1, body |-> OrderData(Undefined, Undefined, Undefined, NoSymbol),
     validations |-> NoValidations, riskValidation |-> NoVerdict,
     correlationValidation |-> NotRun, response |-> NoResponse]

\* if (!riskValidation.valid) return res.status(400)...
RiskGateRejectsMutant(riskValidation) == FALSE
RiskGateRejects(riskValidation) == ~riskValidation.valid

\* if (!correlationValidation.valid) return res.status(400)...
CorrelationGateRejects(correlationValidation) == ~correlationValidation.valid

\* authenticateToken lets the request of an existing user through;
\* createOrder builds orderData and calls validateOrderRisk
\* (requests are numbered in the order they arrive)
Receive(r, u, b) ==
    /\ req[r].pc = "new"
    /\ \A q \in Reqs : q < r => req[q].pc # "new"
    /\ users[u].exists
    /\ req' = [req EXCEPT ![r] = [@ EXCEPT !.pc = "risk", !.userId = u, !.body = b]]
    /\ UNCHANGED <<backtest, indicators, strategy, users, orders, positions, now, call, kelly>>

\* validateOrderRisk: const user = await User.findByPk(userId)
RiskFindUser(r) ==
    /\ req[r].pc = "risk"
    /\ IF users[req[r].userId].exists
       THEN req' = [req EXCEPT ![r] = [@ EXCEPT !.pc = "positionSize"]]
       ELSE req' = [req EXCEPT ![r] =
                      [@ EXCEPT !.pc = "done",
                                !.riskValidation = VerdictError,
                                !.response = RiskRejection(VerdictError)]]
    /\ UNCHANGED <<backtest, indicators, strategy, users, orders, positions, now, call, kelly>>

\* positionSize: await this.validatePositionSize(userId, orderData)
StepPositionSize(r) ==
    /\ req[r].pc = "positionSize"
    /\ req' = [req EXCEPT ![r] =
                 [@ EXCEPT !.pc = "dailyLoss",
                           !.validations.positionSize =
                               ValidatePositionSize(users, req[r].userId, req[r].body)]]
    /\ UNCHANGED <<backtest, indicators, strategy, users, orders, positions, now, call, kelly>>

\* dailyLoss: await this.validateDailyLoss(userId, orderData)
StepDailyLoss(r) ==
    /\ req[r].pc = "dailyLoss"
    /\ req' = [req EXCEPT ![r] =
                 [@ EXCEPT !.pc = "monthlyLoss",
                           !.validations.dailyLoss =
                               ValidateDailyLoss(users, orders, now, req[r].userId)]]
    /\ UNCHANGED <<backtest, indicators, strategy, users, orders, positions, now, call, kelly>>

\* monthlyLoss: await this.validateMonthlyLoss(userId, orderData)
StepMonthlyLoss(r) ==
    /\ req[r].pc = "monthlyLoss"
    /\ req' = [req EXCEPT ![r] =
                 [@ EXCEPT !.pc = "leverage",
                           !.validations.monthlyLoss =
                               ValidateMonthlyLoss(users, orders, now, req[r].userId)]]
    /\ UNCHANGED <<backtest, indicators, strategy, users, orders, positions, now, call, kelly>>

\* leverage and marketHours read no table: they run as one step, which ends
\* with the verdict of validateOrderRisk and createOrder's test of it
StepLeverageMarketHours(r) ==
    /\ req[r].pc = "leverage"
    /\ LET validations ==
               [req[r].validations EXCEPT
                   !.leverage = ValidateLeverage(req[r].body),
                   !.marketHours = ValidateMarketHours(req[r].body.symbol)]
           riskValidation == Verdict(validations)
       IN  req' = [req EXCEPT ![r] =
                     IF RiskGateRejects(riskValidation)
                     THEN [@ EXCEPT !.pc = "done",
                                    !.validations = validations,
                                    !.riskValidation = riskValidation,
                                    !.response = RiskRejection(riskValidation)]
                     ELSE [@ EXCEPT !.pc = "correlation",
                                    !.validations = validations,
                                    !.riskValidation = riskValidation]]
    /\ UNCHANGED <<backtest, indicators, strategy, users, orders, positions, now, call, kelly>>

\* await RiskManagementService.validateCorrelation(userId, orderData.symbol)
StepCorrelation(r) ==
    /\ req[r].pc = "correlation"
    /\ LET correlationValidation == ValidateCorrelation(positions, req[r].userId)
       IN  req' = [req EXCEPT ![r] =
                     IF CorrelationGateRejects(correlationValidation)
                     THEN [@ EXCEPT !.pc = "done",
                                    !.correlationValidation = correlationValidation,
                                    !.response =
                                        CorrelationRejection(correlationValidation)]
                     ELSE [@ EXCEPT !.pc = "create",
                                    !.correlationValidation = correlationValidation]]
    /\ UNCHANGED <<backtest, indicators, strategy, users, orders, positions, now, call, kelly>>

\* const order = await Order.create(orderData); the insert fails, and the
\* catch block answers 500, when the user row it references is gone
StepCreate(r) ==
    /\ req[r].pc = "create"
    /\ IF users[req[r].userId].exists
       THEN /\ orders' = Append(orders, OrderRow(req[r].userId, now, Undefined, r))
            /\ req' = [req EXCEPT ![r] = [@ EXCEPT !.pc = "done", !.response = Created]]
       ELSE /\ orders' = orders
            /\ req' = [req EXCEPT ![r] = [@ EXCEPT !.pc = "done", !.response = ServerError]]
    /\ UNCHANGED <<backtest, indicators, strategy, users, positions, now, call, kelly>>

\* UserController.deleteUser, for a user no order or position row references
DeleteUser(u) ==
    /\ users[u].exists
    /\ \A i \in DOMAIN orders : orders[i].user_id # u
    /\ \A i \in DOMAIN positions.rows : positions.rows[i].user_id # u
    /\ users' = [users EXCEPT ![u] = NoUser]
    /\ UNCHANGED <<backtest, indicators, strategy, orders, positions, now, req, call, kelly>>

\* no call of TechnicalIndicatorsService yet
NoIndicators ==
    [fn |-> "", data |-> <<>>, after |-> <<>>, period |-> 0, result |-> <<>>,
     threw |-> FALSE, error |-> ""]

\* no call of TradingStrategyService yet
NoStrategy ==
    [fn |-> "", strategyType |-> "", data |-> <<>>, options |-> <<>>, prices |-> <<>>,
     returned |-> FALSE, threw |-> "", result |-> <<>>, evaluated |-> <<>>, status |-> 0]

NoCall ==
    [fn |-> "", userId |-> 1, orderData |-> OrderData(Undefined, Undefined, Undefined, NoSymbol),
     result |-> NotRun, verdict |-> NoVerdict]

NoKelly == [winRate |-> Undefined, avgWin |-> Undefined, avgLoss |-> Undefined, result |-> Undefined]

\* the tables when the first request arrives: user 1 holds three open
\* positions and a closed one and lost 6% at time 0, which is today or
\* yesterday; the last user holds nothing, the users in between one open
\* position each
Init ==
    /\ users = [u \in UserIds |-> User(NoSettings)]
    /\ \E isOpenColumn \in BOOLEAN :
          positions = PositionTable(isOpenColumn,
                         Rows(maxOpenPositions, PositionRow(1, TRUE))
                            \o <<PositionRow(1, FALSE)>>
                            \o [i \in 1..(MaxUsers - 2) |-> PositionRow(i + 1, TRUE)])
    /\ orders = <<OrderRow(1, 0, Num(-600), 0)>>
    /\ now \in {0, TicksPerDay}
    /\ req = [r \in Reqs |-> NoRequest]
    /\ call = NoCall
    /\ backtest = <<>>
    /\ kelly = NoKelly
    /\ indicators = NoIndicators
    /\ strategy = NoStrategy

Next ==
    \/ \E r \in Reqs, u \in UserIds, b \in Bodies : Receive(r, u, b)
    \/ \E r \in Reqs : RiskFindUser(r)
    \/ \E r \in Reqs : StepPositionSize(r)
    \/ \E r \in Reqs : StepDailyLoss(r)
    \/ \E r \in Reqs : StepMonthlyLoss(r)
    \/ \E r \in Reqs : StepLeverageMarketHours(r)
    \/ \E r \in Reqs : StepCorrelation(r)
    \/ \E r \in Reqs : StepCreate(r)
    \/ \E u \in UserIds : DeleteUser(u)

Spec == Init /\ [][Next]_vars

----------------------------------------------------------------------------
(* Properties of createOrder *)

\* request r has recorded an order
CreatedBy(r) == \E i \in DOMAIN orders : orders[i].by = r

\* the checks request r has run so far, as they were returned to it
ChecksOf(r) ==
    {c \in {req[r].validations[k] : k \in DOMAIN req[r].validations}
             \cup {req[r].correlationValidation} : c # NotRun}

FailedChecks(r) == {c \in ChecksOf(r) : ~c.valid}

\* all six checks of request r have run and passed
AllChecksPassed(r) ==
    /\ \A k \in DOMAIN req[r].validations :
          req[r].validations[k] # NotRun /\ req[r].validations[k].valid
    /\ req[r].correlationValidation # NotRun
    /\ req[r].correlationValidation.valid

Rejected(r) ==
    /\ req[r].pc = "done"
    /\ req[r].response.status = 400
    /\ ~req[r].response.success

\* C1: an order is recorded by a request only when the five checks of
\* validateOrderRisk and the correlation check of that same request all
\* passed; once one of its checks reports valid=false the request records no
\* order, never reaches Order.create, and ends as a rejection.
C1_OrderOnlyWhenAllChecksPassed ==
    \A r \in Reqs :
       /\ CreatedBy(r) => AllChecksPassed(r)
       /\ (FailedChecks(r) # {} \/ req[r].riskValidation = VerdictError) =>
             /\ ~CreatedBy(r)
             /\ req[r].pc # "create"
             /\ req[r].pc = "done" => Rejected(r)

\* one request has recorded its order and another one was rejected on a check
C1_Witness ==
    \E r, s \in Reqs :
       /\ CreatedBy(r) /\ req[r].response.status = 201
       /\ FailedChecks(s) # {} /\ Rejected(s)

\* C2: the verdict of validateOrderRisk is valid exactly when positionSize,
\* dailyLoss, monthlyLoss, leverage, marketHours and correlation are all
\* valid; a failing correlation check makes the verdict invalid.
C2_VerdictValidIffSixChecksValid ==
    \A r \in Reqs :
       req[r].riskValidation.defined =>
          (req[r].riskValidation.valid <=>
              /\ \A k \in DOMAIN req[r].riskValidation.validations :
                    req[r].riskValidation.validations[k].valid
              /\ ValidateCorrelation(positions, req[r].userId).valid)

\* request r has read the order table for its checks and has not yet
\* reached the end of its Order.create
InGateWindow(r) == req[r].pc \in {"monthlyLoss", "leverage", "correlation", "create"}

\* C3: gate-then-submit is atomic per user: no request records its order
\* while another request of the same user is between its risk checks and its
\* own Order.create.
C3_GateThenSubmitAtomicPerUser ==
    [][\A r, s \in Reqs :
          (r # s /\ req[r].userId = req[s].userId /\ InGateWindow(r)) =>
             ~(req[s].pc = "create" /\ req'[s].pc = "done"
               /\ Len(orders') > Len(orders))]_vars

\* the check records a response carries
ResponseChecks(response) ==
    IF response.hasValidations
    THEN {response.validations[k] : k \in DOMAIN response.validations}
    ELSE {}

\* C9: a rejection caused by a failed risk check carries the record
\* {valid, value, limit, message} of every failed check as the check made it.
C9_RejectionCarriesFailedChecks ==
    \A r \in Reqs :
       (Rejected(r) /\ FailedChecks(r) # {}) =>
          FailedChecks(r) \subseteq ResponseChecks(req[r].response)

----------------------------------------------------------------------------
(* The gate functions called one at a time on given table contents *)

\* risk settings of the calling user: nothing set, every limit set, limits
\* set to 0
Profiles ==
    { NoSettings,
      RiskSettings(Num(300), Num(300), Num(400), Num(5), Num(2)),
      RiskSettings(Num(0), Num(0), Undefined, Undefined, Undefined) }

PnlValues == {Undefined, Num(-300), Num(400)}

\* order tables: at most MaxRows rows of the last two ticks, in insertion
\* order
OrderTables(t) ==
    LET rows == {OrderRow(u, c, p, 0) :
                    u \in UserIds, c \in {x \in 0..t : x + 1 >= t}, p \in PnlValues}
    IN  UNION {{tab \in [1..n -> rows] :
                   \A i \in 1..n, j \in 1..n : i < j => tab[i].createdAt <= tab[j].createdAt}
               : n \in 0..MaxRows}

\* position tables: open and closed positions of the caller and of others
PositionTables ==
    {PositionTable(isOpenColumn,
                   Rows(n, PositionRow(1, TRUE)) \o Rows(c, PositionRow(1, FALSE))
                      \o Rows(m, PositionRow(2, TRUE))) :
     isOpenColumn \in BOOLEAN, n \in 0..MaxOpen, c \in 0..1,
     m \in {0, maxOpenPositions}}

ChecksInit ==
    /\ \E s \in Profiles :
          users = [u \in UserIds |-> IF u = 1 THEN User(s) ELSE User(NoSettings)]
    /\ \/ /\ now \in 0..MaxNow
          /\ orders \in OrderTables(now)
          /\ positions = PositionTable(FALSE, <<>>)
       \/ /\ now = 0
          /\ orders = <<>>
          /\ positions \in PositionTables
    /\ req = [r \in Reqs |-> NoRequest]
    /\ call = NoCall
    /\ backtest = <<>>
    /\ kelly = NoKelly
    /\ indicators = NoIndicators
    /\ strategy = NoStrategy

SizeOrders ==
    {OrderData(Num(q), p, Undefined, BTCUSDT) :
        q \in {1, 2}, p \in {Undefined, Num(100), Num(150), Num(300)}}

LeverageOrders ==
    {OrderData(Num(1), Num(100), l, BTCUSDT) :
        l \in {Undefined, Num(0), Num(4), Num(8), Num(10), Num(11)}}

SymbolOrders ==
    {OrderData(Num(1), Num(100), Undefined, sym) : sym \in {BTCUSDT, AAPL, NoSymbol}}

\* each behaviour calls one function once on the tables it starts with
Returned(fn, u, orderData, result) ==
    [fn |-> fn, userId |-> u, orderData |-> orderData, result |-> result,
     verdict |-> NoVerdict]

CallValidatePositionSize(u, od) ==
    /\ call = NoCall
    /\ call' = Returned("validatePositionSize", u, od,
                        ValidatePositionSize(users, u, od))
    /\ UNCHANGED <<backtest, indicators, strategy, users, orders, positions, now, req, kelly>>

CallValidateDailyLoss(u, od) ==
    /\ call = NoCall
    /\ call' = Returned("validateDailyLoss", u, od,
                        ValidateDailyLoss(users, orders, now, u))
    /\ UNCHANGED <<backtest, indicators, strategy, users, orders, positions, now, req, kelly>>

CallValidateMonthlyLoss(u, od) ==
    /\ call = NoCall
    /\ call' = Returned("validateMonthlyLoss", u, od,
                        ValidateMonthlyLoss(users, orders, now, u))
    /\ UNCHANGED <<backtest, indicators, strategy, users, orders, positions, now, req, kelly>>

CallValidateLeverage(u, od) ==
    /\ call = NoCall
    /\ call' = Returned("validateLeverage", u, od, ValidateLeverage(od))
    /\ UNCHANGED <<backtest, indicators, strategy, users, orders, positions, now, req, kelly>>

CallValidateMarketHours(u, od) ==
    /\ call = NoCall
    /\ call' = Returned("validateMarketHours", u, od, ValidateMarketHours(od.symbol))
    /\ UNCHANGED <<backtest, indicators, strategy, users, orders, positions, now, req, kelly>>

CallValidateCorrelation(u, od) ==
    /\ call = NoCall
    /\ call' = Returned("validateCorrelation", u, od,
                        ValidateCorrelation(positions, u))
    /\ UNCHANGED <<backtest, indicators, strategy, users, orders, positions, now, req, kelly>>

CallValidateOrderRisk(u, od) ==
    /\ call = NoCall
    /\ call' = [Returned("validateOrderRisk", u, od, NotRun) EXCEPT
                   !.verdict = ValidateOrderRisk(users, orders, now, u, od)]
    /\ UNCHANGED <<backtest, indicators, strategy, users, orders, positions, now, req, kelly>>

PlainOrder == OrderData(Num(1), Num(100), Undefined, BTCUSDT)

ChecksNext ==
    \/ \E u \in UserIds, od \in SizeOrders : CallValidatePositionSize(u, od)
    \/ \E u \in UserIds : CallValidateDailyLoss(u, PlainOrder)
    \/ \E u \in UserIds : CallValidateMonthlyLoss(u, PlainOrder)
    \/ \E u \in UserIds, od \in LeverageOrders : CallValidateLeverage(u, od)
    \/ \E u \in UserIds, od \in SymbolOrders : CallValidateMarketHours(u, od)
    \/ \E u \in UserIds : CallValidateCorrelation(u, PlainOrder)
    \/ \E u \in UserIds, od \in {PlainOrder, OrderData(Num(1), Num(300), Undefined, BTCUSDT)} :
          CallValidateOrderRisk(u, od)

ChecksSpec == ChecksInit /\ [][ChecksNext]_vars

----------------------------------------------------------------------------
(* Properties of the single checks *)

OpenPositionCount(u) ==
    Cardinality({i \in DOMAIN positions.rows :
                    positions.rows[i].user_id = u /\ positions.rows[i].isOpen})

\* C5: the correlation check is valid exactly when the user's number of
\* open positions is strictly below maxOpenPositions (3 open: rejected,
\* 2 open: passes); positions of other users and closed positions are not
\* counted.
C5_CorrelationCheck ==
    call.fn = "validateCorrelation" =>
       /\ call.result.valid <=> OpenPositionCount(call.userId) < maxOpenPositions
       /\ call.result.value = Num(OpenPositionCount(call.userId))
       /\ call.result.limit = Num(maxOpenPositions)

\* the realized P&L of the order rows with index in S, a row without one
\* counting 0
RECURSIVE PnlOfRows(_)
PnlOfRows(S) ==
    IF S = {}
    THEN 0
    ELSE LET i == CHOOSE x \in S : TRUE
             pnl == orders[i].realizedPnl
         IN  (IF IsNum(pnl) THEN pnl.v ELSE 0) + PnlOfRows(S \ {i})

\* the realized loss of user u over the orders created at or after since
PeriodLoss(u, since) ==
    LET pnl == PnlOfRows({i \in DOMAIN orders :
                            orders[i].user_id = u /\ orders[i].createdAt >= since})
    IN  IF pnl < 0 THEN -pnl ELSE 0

\* the first tick of the period of the given length that holds the clock
PeriodStart(length) ==
    CHOOSE d \in 0..now : d % length = 0 /\ d <= now /\ now < d + length

\* the result is that of comparing the loss ratio with the limit reported
LossCheckIs(loss) ==
    /\ IsNum(call.result.limit) /\ IsNum(call.result.value)
    /\ call.result.valid <=> loss * BasisPoints <= call.result.limit.v * totalBalance
    /\ call.result.value.v * totalBalance = loss * BasisPoints

UserMaxLeverage(u) ==
    IF IsNum(users[u].riskSettings.maxLeverage)
    THEN users[u].riskSettings.maxLeverage.v
    ELSE maxLeverage

\* C7: the leverage check is valid exactly when the order's leverage (1 when
\* the order gives none) is at most the maxLeverage of the submitting
\* user's RiskLimits.
C7_LeverageAgainstUserLimit ==
    call.fn = "validateLeverage" =>
       LET leverage == IF IsNum(call.orderData.leverage)
                       THEN call.orderData.leverage.v ELSE 1
       IN  call.result.valid <=> leverage <= UserMaxLeverage(call.userId)

\* C8: the limit a check uses is the user's own value whenever the user has
\* set one, and the default (0.02, 0.05, 0.20) only when the user has not.
C8_OwnLimitWheneverSet ==
    LET settings == users[call.userId].riskSettings
        Limit(setting, default) == IF IsNum(setting) THEN setting ELSE Num(default)
    IN  /\ call.fn = "validatePositionSize" =>
             call.result.limit = Limit(settings.maxPositionSize, DefaultMaxPositionSize)
        /\ call.fn = "validateDailyLoss" =>
             call.result.limit = Limit(settings.maxDailyLoss, DefaultMaxDailyLoss)
        /\ call.fn = "validateMonthlyLoss" =>
             call.result.limit = Limit(settings.maxMonthlyLoss, DefaultMaxMonthlyLoss)

----------------------------------------------------------------------------
(* calculateOptimalPositionSize(winRate, avgWin, avgLoss, totalBalance)    *)
(* winRate is held in hundredths (0.5 is 50), the result in basis points   *)

Hundred == 10 * 10

\* a / b
Div(a, b) ==
    IF ~IsNum(a) \/ ~IsNum(b) THEN NaN
    ELSE IF b.v # 0 THEN Num(a.v \div b.v)
    ELSE IF a.v > 0 THEN PosInfinity
    ELSE IF a.v < 0 THEN NegInfinity
    ELSE NaN

\* x * 0.25
Quarter(x) == IF IsNum(x) THEN Num(x.v \div 4) ELSE x

\* Math.min(a, x) for a number a
MathMin(a, x) ==
    IF x.t = "num" THEN (IF x.v < a THEN x ELSE Num(a))
    ELSE IF x.t = "Infinity" THEN Num(a)
    ELSE IF x.t = "-Infinity" THEN x
    ELSE NaN

\* Math.max(a, x) for a number a
MathMax(a, x) ==
    IF x.t = "num" THEN (IF x.v > a THEN x ELSE Num(a))
    ELSE IF x.t = "-Infinity" THEN Num(a)
    ELSE IF x.t = "Infinity" THEN x
    ELSE NaN

KellyDefault == 200
KellyMin == 100
KellyMax == 1000

CalculateOptimalPositionSize(winRate, avgWin, avgLoss) ==
    IF IsNum(winRate) /\ (winRate.v <= 0 \/ winRate.v >= Hundred)
    THEN Num(KellyDefault)
    ELSE LET edge ==
                 IF IsNum(winRate) /\ IsNum(avgWin) /\ IsNum(avgLoss)
                 THEN Num(winRate.v * avgWin.v - (Hundred - winRate.v) * avgLoss.v)
                 ELSE NaN
             \* (winRate * avgWin - (1 - winRate) * avgLoss) / avgWin
             kellyPercentage == Div(Times2(Num(BasisPoints \div Hundred), edge), avgWin)
             conservativeKelly == Quarter(kellyPercentage)
         IN  MathMax(KellyMin, MathMin(KellyMax, conservativeKelly))

WinRates == {Num(w) : w \in {-10, 0, 1, 30, 50, 60, 90, 100, 150}} \cup {NaN}
AvgWins == {Num(a) : a \in {-1, 0, 1, 5}} \cup {Undefined}
AvgLosses == {Num(a) : a \in {-1, 0, 1, 5}}

KellyInit ==
    /\ users = [u \in UserIds |-> User(NoSettings)]
    /\ orders = <<>>
    /\ positions = PositionTable(FALSE, <<>>)
    /\ now = 0
    /\ req = [r \in Reqs |-> NoRequest]
    /\ call = NoCall
    /\ backtest = <<>>
    /\ kelly = NoKelly
    /\ indicators = NoIndicators
    /\ strategy = NoStrategy

CallCalculateOptimalPositionSize(winRate, avgWin, avgLoss) ==
    /\ kelly' = [winRate |-> winRate, avgWin |-> avgWin, avgLoss |-> avgLoss,
                 result |-> CalculateOptimalPositionSize(winRate, avgWin, avgLoss)]
    /\ UNCHANGED <<backtest, indicators, strategy, users, orders, positions, now, req, call>>

KellyNext ==
    \E winRate \in WinRates, avgWin \in AvgWins, avgLoss \in AvgLosses :
       CallCalculateOptimalPositionSize(winRate, avgWin, avgLoss)

KellySpec == KellyInit /\ [][KellyNext]_vars

\* C10: calculateOptimalPositionSize returns for every input a number in
\* [0.01, 0.10], and 0.02 when winRate <= 0, winRate >= 1 or avgWin = 0;
\* never an undefined or not-a-number result.
C10_KellyInBandAndSafeDefault ==
    kelly # NoKelly =>
       /\ IsNum(kelly.result)
       /\ KellyMin <= kelly.result.v /\ kelly.result.v <= KellyMax
       /\ (\/ (IsNum(kelly.winRate) /\ (kelly.winRate.v <= 0 \/ kelly.winRate.v >= Hundred))
           \/ kelly.avgWin = Num(0)) => kelly.result = Num(KellyDefault)

----------------------------------------------------------------------------
(* TechnicalIndicatorsService                                              *)
(* A number of the indicator and strategy code is an exact fraction n/d    *)
(* in lowest terms, d > 0, next to null, undefined and NaN.  The fields    *)
(* openTime, open, high, low, close and volume of a bar are integers.      *)

MaxBars == 4
MaxPeriod == 3

RECURSIVE GCD(_, _)
GCD(a, b) == IF b = 0 THEN a ELSE GCD(b, a % b)

Frac(n, d) ==
    LET g == GCD(IF n < 0 THEN -n ELSE n, d)
    IN  [t |-> "num", n |-> n \div g, d |-> d \div g]

Whole(n) == Frac(n, 1)
Null == [t |-> "null", n |-> 0, d |-> 1]
Missing == [t |-> "undefined", n |-> 0, d |-> 1]
NotANumber == [t |-> "NaN", n |-> 0, d |-> 1]

IsFrac(x) == x.t = "num"

\* a + b, a - b, a * b and a / b (b # 0) on numbers
Arith(op, a, b) ==
    LET n == CASE op = "+" -> a.n * b.d + b.n * a.d
               [] op = "-" -> a.n * b.d - b.n * a.d
               [] op = "*" -> a.n * b.n
               [] op = "/" -> IF b.n > 0 THEN a.n * b.d ELSE -(a.n * b.d)
        d == IF op = "/" THEN (IF b.n > 0 THEN a.d * b.n ELSE a.d * (-b.n)) ELSE a.d * b.d
    IN  Frac(n, d)

\* a < b, a > b, a <= b and a >= b after ToNumber (null is 0, undefined is
\* NaN); false as soon as one side is NaN
CompareMutant(op, a, b) ==
    /\ a.t \in {"num", "null"}
    /\ b.t \in {"num", "null"}
    /\ LET x == IF a.t = "null" THEN 0 ELSE a.n * b.d
           y == IF b.t = "null" THEN 0 ELSE b.n * a.d
       IN  CASE op = "<" -> x <= y
             [] op = ">" -> x >= y
             [] op = "<=" -> x <= y
             [] op = ">=" -> x >= y
Compare(op, a, b) ==
    /\ a.t \in {"num", "null"}
    /\ b.t \in {"num", "null"}
    /\ LET x == IF a.t = "null" THEN 0 ELSE a.n * b.d
           y == IF b.t = "null" THEN 0 ELSE b.n * a.d
       IN  CASE op = "<" -> x < y
             [] op = ">" -> x > y
             [] op = "<=" -> x <= y
             [] op = ">=" -> x >= y

\* x || null: 0, NaN, null and undefined are falsy
OrNull(x) == IF IsFrac(x) /\ x.n # 0 THEN x ELSE Null

\* array[index] with index counted from 0: undefined past the end
At(array, index) == IF index + 1 \in DOMAIN array THEN array[index + 1] ELSE Missing

\* {...item, [field]: value}
Attach(item, field, value) ==
    [f \in DOMAIN item \cup {field} |-> IF f = field THEN value ELSE item[f]]

\* object.name: undefined when the object has no such property
Field(object, name) == IF name \in DOMAIN object THEN object[name] ELSE Missing

\* data.map(d => d.close)
Closes(data) == [i \in DOMAIN data |-> data[i].close]

RECURSIVE SumSeq(_)
SumSeq(values) ==
    IF values = <<>> THEN 0
    ELSE SumSeq(SubSeq(values, 1, Len(values) - 1)) + values[Len(values)]

\* technicalIndicators.SMA.calculate({period, values}): one mean per full
\* window, the first for values[0..period-1]; nothing before the window fills
SMA(period, values) ==
    [k \in 1..(IF Len(values) >= period THEN Len(values) - period + 1 ELSE 0) |->
        Frac(SumSeq(SubSeq(values, k, k + period - 1)), period)]

\* calculateSMA(data, period)
CalculateSMAMutant(data, period) ==
    LET sma == SMA(period, Closes(data))
    IN  [i \in DOMAIN sma |-> Attach(data[i], "sma", OrNull(At(sma, i - 1)))]
CalculateSMA(data, period) ==
    LET sma == SMA(period, Closes(data))
    IN  [i \in DOMAIN data |-> Attach(data[i], "sma", OrNull(At(sma, i - 1)))]

\* technicalIndicators.EMA.calculate({period, values}) on a series of
\* numbers: the first value is the mean of values[0..period-1], each later
\* one (value - prevEma) * 2 / (period + 1) + prevEma
RECURSIVE FSumSeq(_)
FSumSeq(values) ==
    IF values = <<>> THEN Whole(0)
    ELSE Arith("+", FSumSeq(SubSeq(values, 1, Len(values) - 1)), values[Len(values)])

RECURSIVE EMAValue(_, _, _)
EMAValue(period, values, k) ==
    IF k = 1
    THEN Arith("/", FSumSeq(SubSeq(values, 1, period)), Whole(period))
    ELSE LET prevEma == EMAValue(period, values, k - 1)
         IN  Arith("+", Arith("*", Arith("-", values[period + k - 1], prevEma),
                              Frac(2, period + 1)),
                   prevEma)

EMA(period, values) ==
    [k \in 1..(IF Len(values) >= period THEN Len(values) - period + 1 ELSE 0) |->
        EMAValue(period, values, k)]

\* calculateEMA(data, period)
CalculateEMA(data, period) ==
    LET ema == EMA(period, [i \in DOMAIN data |-> Whole(data[i].close)])
    IN  [i \in DOMAIN data |-> Attach(data[i], "ema", OrNull(At(ema, i - 1)))]

\* Wilder's average of the library (AverageGain, AverageLoss, WEMA): the
\* mean of the first period values, then (prev * (period - 1) + value) / period
RECURSIVE Wilder(_, _, _)
Wilder(period, values, k) ==
    IF k = 1
    THEN Frac(SumSeq(SubSeq(values, 1, period)), period)
    ELSE Arith("/", Arith("+", Arith("*", Wilder(period, values, k - 1),
                                     Whole(period - 1)),
                          Whole(values[period + k - 1])),
               Whole(period))

\* technicalIndicators.RSI.calculate({period, values}): one value per close
\* from values[period] on; 100 without losses, 0 without gains, else
\* 100 - 100 / (1 + avgGain / avgLoss) (which the library rounds to 2 places)
RSI(period, values) ==
    LET gains == [j \in 1..(Len(values) - 1) |->
                     IF values[j + 1] > values[j] THEN values[j + 1] - values[j] ELSE 0]
        losses == [j \in 1..(Len(values) - 1) |->
                      IF values[j + 1] < values[j] THEN values[j] - values[j + 1] ELSE 0]
    IN  [k \in 1..(IF Len(values) > period THEN Len(values) - period ELSE 0) |->
            LET avgGain == Wilder(period, gains, k)
                avgLoss == Wilder(period, losses, k)
            IN  IF avgLoss.n = 0 THEN Whole(100)
                ELSE IF avgGain.n = 0 THEN Whole(0)
                ELSE Arith("/", Arith("*", Whole(100), avgGain),
                           Arith("+", avgGain, avgLoss))]

\* calculateRSI(data, period)
CalculateRSI(data, period) ==
    LET rsi == RSI(period, Closes(data))
    IN  [i \in DOMAIN data |-> Attach(data[i], "rsi", OrNull(At(rsi, i - 1)))]

\* technicalIndicators.MACD.calculate({fastPeriod, slowPeriod, signalPeriod,
\* values}), fastPeriod <= slowPeriod: one entry per close from
\* values[slowPeriod-1] on; MACD is the fast EMA minus the slow EMA, signal
\* the EMA of MACD once signalPeriod entries exist (a signal of 0 is left
\* out), histogram MACD - signal
MACD(fastPeriod, slowPeriod, signalPeriod, values) ==
    LET count == IF Len(values) >= slowPeriod THEN Len(values) - slowPeriod + 1 ELSE 0
        numbers == [i \in DOMAIN values |-> Whole(values[i])]
        Line(fast, slow) ==
            [k \in 1..count |-> Arith("-", fast[slowPeriod - fastPeriod + k], slow[k])]
        Entry(MACDValue, signal) ==
            [MACD |-> MACDValue,
             signal |-> IF IsFrac(signal) /\ signal.n # 0 THEN signal ELSE Missing,
             histogram |-> IF IsFrac(signal) THEN Arith("-", MACDValue, signal) ELSE Missing]
        Entries(line, signals) ==
            [k \in 1..count |->
                Entry(line[k], IF k >= signalPeriod THEN signals[k - signalPeriod + 1]
                               ELSE Missing)]
        WithSignals(line) == Entries(line, EMA(signalPeriod, line))
    IN  WithSignals(Line(EMA(fastPeriod, numbers), EMA(slowPeriod, numbers)))

\* calculateMACD(data, fastPeriod, slowPeriod, signalPeriod)
CalculateMACD(data, fastPeriod, slowPeriod, signalPeriod) ==
    LET macd == MACD(fastPeriod, slowPeriod, signalPeriod, Closes(data))
    IN  [i \in DOMAIN data |->
            Attach(data[i], "macd", IF i \in DOMAIN macd THEN macd[i] ELSE Null)]

\* technicalIndicators.ATR.calculate({high, low, close, period}): Wilder's
\* average of the true range max(high - low, |high - previous close|,
\* |low - previous close|), one value per bar from bar period on
ATR(period, data) ==
    LET Max2(a, b) == IF a >= b THEN a ELSE b
        Abs(x) == IF x < 0 THEN -x ELSE x
        trueRange == [j \in 1..(Len(data) - 1) |->
                         Max2(data[j + 1].high - data[j + 1].low,
                              Max2(Abs(data[j + 1].high - data[j].close),
                                   Abs(data[j + 1].low - data[j].close)))]
    IN  [k \in 1..(IF Len(data) > period THEN Len(data) - period ELSE 0) |->
            Wilder(period, trueRange, k)]

\* calculateATR(data, period)
CalculateATR(data, period) ==
    LET atr == ATR(period, data)
    IN  [i \in DOMAIN data |-> Attach(data[i], "atr", OrNull(At(atr, i - 1)))]

\* The other calculators of the library are taken by the shape of what they
\* return, an array shorter than the input by the bars the calculator
\* consumes before its first value; the k-th value is not interpreted and
\* stands as a truthy value of its own.  The function that calls the
\* calculator attaches values[index], or null, to the bar at index.
\* data.map((item, index) => ({...item, [field]: values[index] || null}))
AttachLibrary(data, field, calculator, period) ==
    LET warmUp == CASE calculator = "BollingerBands" -> period - 1
                    [] calculator = "Stochastic" -> period - 1
                    [] calculator = "WilliamsR" -> period - 1
                    [] calculator = "PSAR" -> 0
                    [] calculator = "OBV" -> 1
                    [] calculator = "MFI" -> period
                    [] calculator = "IchimokuCloud" -> 52 - 1
        values == [k \in 1..(IF Len(data) > warmUp THEN Len(data) - warmUp ELSE 0) |->
                      [calculator |-> calculator, k |-> k]]
    IN  [i \in DOMAIN data |->
            Attach(data[i], field, IF i \in DOMAIN values THEN values[i] ELSE Null)]

\* calculateBollingerBands(data, period, stdDev)
CalculateBollingerBands(data, period) ==
    AttachLibrary(data, "bollingerBands", "BollingerBands", period)

\* calculateStochastic(data, kPeriod, dPeriod)
CalculateStochastic(data, kPeriod) ==
    AttachLibrary(data, "stochastic", "Stochastic", kPeriod)

\* calculateWilliamsR(data, period)
CalculateWilliamsR(data, period) == AttachLibrary(data, "williamsR", "WilliamsR", period)

\* calculatePSAR(data, acceleration, maximum)
CalculatePSAR(data) == AttachLibrary(data, "psar", "PSAR", 0)

\* calculateOBV(data)
CalculateOBV(data) == AttachLibrary(data, "obv", "OBV", 0)

\* calculateMFI(data, period)
CalculateMFI(data, period) == AttachLibrary(data, "mfi", "MFI", period)

\* calculateIchimoku(data)
CalculateIchimoku(data) == AttachLibrary(data, "ichimoku", "IchimokuCloud", 0)

\* calculateFibonacciRetracement(data, swingHigh, swingLow)
CalculateFibonacciRetracement(data, swingHigh, swingLow) ==
    LET range == swingHigh - swingLow
        levels == [r \in {0, 236, 382, 500, 618, 786, 1000} |->
                      Arith("+", Whole(swingLow), Arith("*", Whole(range), Frac(r, 1000)))]
    IN  [i \in DOMAIN data |-> Attach(data[i], "fibonacci", levels)]

\* calculateVWAP(data); the sums after the items 1..i are
\* cumulativeTPV += typicalPrice * item.volume; cumulativeVolume += item.volume
CalculateVWAPMutant(data) ==
    [i \in DOMAIN data |->
        LET item == data[i]
            typicalPrice == Frac(item.high + item.low + item.close, 3)
            cumulativeTPV == Arith("*", typicalPrice, Whole(item.volume))
            cumulativeVolume == item.volume
        IN  Attach(item, "vwap",
                   IF cumulativeVolume > 0
                   THEN Arith("/", cumulativeTPV, Whole(cumulativeVolume))
                   ELSE Null)]
CalculateVWAP(data) ==
    LET priceVolume == [j \in DOMAIN data |->
                           LET item == data[j]
                               typicalPrice == Frac(item.high + item.low + item.close, 3)
                           IN  Arith("*", typicalPrice, Whole(item.volume))]
    IN  [i \in DOMAIN data |->
            LET cumulativeTPV == FSumSeq(SubSeq(priceVolume, 1, i))
                cumulativeVolume == SumSeq(SubSeq([j \in DOMAIN data |-> data[j].volume], 1, i))
            IN  Attach(data[i], "vwap",
                       IF cumulativeVolume > 0
                       THEN Arith("/", cumulativeTPV, Whole(cumulativeVolume))
                       ELSE Null)]

\* calculateSupportResistance(data, window); index i of the code is index
\* i + 1 here
CalculateSupportResistanceMutant(data, window) ==
    LET \* for (let i = window; i < data.length - window; i++)
        centers == {i \in DOMAIN data : i - 1 >= window /\ i - 1 < Len(data) - window}
        \* data.slice(i - window, i) and data.slice(i + 1, i + window + 1)
        leftWindow(i) == {j \in DOMAIN data : i - window <= j /\ j < i}
        rightWindow(i) == {j \in DOMAIN data : i < j /\ j <= i + window}
        isSupport(i) ==
            /\ \A j \in leftWindow(i) : data[j].low >= data[i].low
            /\ \A j \in rightWindow(i) : data[j].low >= data[i].low
        isResistance(i) ==
            /\ \A j \in leftWindow(i) : data[j].high <= data[i].high
            /\ \A j \in rightWindow(i) : data[j].high <= data[i].high
        \* the indices pushed, in the order of the loop
        indices == [i \in DOMAIN data |-> i]
        supportAt == SelectSeq(indices, LAMBDA i: i \in centers /\ isSupport(i))
        resistanceAt == SelectSeq(indices, LAMBDA i: i \in centers /\ isResistance(i))
        supports == [k \in DOMAIN supportAt |->
                        [price |-> data[supportAt[k]].low, index |-> supportAt[k] - 1,
                         timestamp |-> data[supportAt[k]].openTime]]
        resistances == [k \in DOMAIN resistanceAt |->
                           [price |-> data[resistanceAt[k]].high,
                            index |-> resistanceAt[k] - 1,
                            timestamp |-> data[resistanceAt[k]].openTime]]
    IN  [i \in DOMAIN data |->
            Attach(Attach(data[i], "supports",
                          supports),
                   "resistances",
                   resistances)]
CalculateSupportResistance(data, window) ==
    LET \* for (let i = window; i < data.length - window; i++)
        centers == {i \in DOMAIN data : i - 1 >= window /\ i - 1 < Len(data) - window}
        \* data.slice(i - window, i) and data.slice(i + 1, i + window + 1)
        leftWindow(i) == {j \in DOMAIN data : i - window <= j /\ j < i}
        rightWindow(i) == {j \in DOMAIN data : i < j /\ j <= i + window}
        isSupport(i) ==
            /\ \A j \in leftWindow(i) : data[j].low >= data[i].low
            /\ \A j \in rightWindow(i) : data[j].low >= data[i].low
        isResistance(i) ==
            /\ \A j \in leftWindow(i) : data[j].high <= data[i].high
            /\ \A j \in rightWindow(i) : data[j].high <= data[i].high
        \* the indices pushed, in the order of the loop
        indices == [i \in DOMAIN data |-> i]
        supportAt == SelectSeq(indices, LAMBDA i: i \in centers /\ isSupport(i))
        resistanceAt == SelectSeq(indices, LAMBDA i: i \in centers /\ isResistance(i))
        supports == [k \in DOMAIN supportAt |->
                        [price |-> data[supportAt[k]].low, index |-> supportAt[k] - 1,
                         timestamp |-> data[supportAt[k]].openTime]]
        resistances == [k \in DOMAIN resistanceAt |->
                           [price |-> data[resistanceAt[k]].high,
                            index |-> resistanceAt[k] - 1,
                            timestamp |-> data[resistanceAt[k]].openTime]]
    IN  [i \in DOMAIN data |->
            Attach(Attach(data[i], "supports",
                          SelectSeq(supports, LAMBDA l: l.timestamp <= data[i].openTime)),
                   "resistances",
                   SelectSeq(resistances, LAMBDA l: l.timestamp <= data[i].openTime))]

\* periods.forEach(period => { result = this.calculateSMA(result, period) }),
\* and the same with calculateEMA
RECURSIVE EachPeriod(_, _, _)
EachPeriod(fn, result, periods) ==
    IF periods = <<>> THEN result
    ELSE EachPeriod(fn,
                    IF fn = "calculateSMA" THEN CalculateSMA(result, Head(periods))
                    ELSE CalculateEMA(result, Head(periods)),
                    Tail(periods))

\* calculateAllIndicators(data, options): what it returns, or the error it
\* throws
CalculateAllIndicators(data, options) ==
    LET defaults ==
            [sma |-> [periods |-> <<20, 50, 200>>],
             ema |-> [periods |-> <<12, 26>>],
             rsi |-> [period |-> 14],
             macd |-> [fastPeriod |-> 12, slowPeriod |-> 26, signalPeriod |-> 9],
             bollingerBands |-> [period |-> 20],
             stochastic |-> [kPeriod |-> 14],
             williamsR |-> [period |-> 14],
             atr |-> [period |-> 14]]
        \* {...defaults, ...options}
        config == [key \in DOMAIN defaults |->
                      IF key \in DOMAIN options THEN options[key] ELSE defaults[key]]
        r1 == EachPeriod("calculateSMA", data, config.sma.periods)
        r2 == EachPeriod("calculateEMA", r1, config.ema.periods)
        r3 == CalculateRSI(r2, config.rsi.period)
        r4 == CalculateMACD(r3, config.macd.fastPeriod, config.macd.slowPeriod,
                            config.macd.signalPeriod)
        r5 == CalculateBollingerBands(r4, config.bollingerBands.period)
        r6 == CalculateStochastic(r5, config.stochastic.kPeriod)
        r7 == CalculateWilliamsR(r6, config.williamsR.period)
        r8 == CalculateATR(r7, config.atr.period)
        r9 == CalculatePSAR(r8)
        r10 == CalculateVWAP(r9)
        r11 == CalculateOBV(r10)
        r12 == CalculateMFI(r11, 14)
        result == CalculateIchimoku(r12)
        \* array.name: the length, and undefined for any other name
        Property(array, name) == IF name = "length" THEN Whole(Len(array)) ELSE Missing
        \* logger.info(..., {supports: supports.length, ...}); return {data:
        \* result, supports, resistances}
        Return(all, supports, resistances) ==
            IF supports = Missing
            THEN [threw |-> TRUE, result |-> <<>>,
                  error |-> "TypeError: Cannot read properties of undefined (reading 'length')"]
            ELSE [threw |-> FALSE, error |-> "",
                  result |-> [data |-> all, supports |-> supports,
                              resistances |-> resistances]]
        \* const { supports, resistances } = this.calculateSupportResistance(result)
        Destructure(all, levels) ==
            Return(all, Property(levels, "supports"), Property(levels, "resistances"))
        WithLevels(all) == Destructure(all, CalculateSupportResistance(all, 20))
    IN  WithLevels(result)

----------------------------------------------------------------------------
(* The indicator functions called one at a time on a bar series *)

\* a bar as StrategyController.executeStrategy builds it from a kline
Bar(openTime, open, high, low, close, volume) ==
    [openTime |-> openTime, open |-> open, high |-> high, low |-> low,
     close |-> close, volume |-> volume, closeTime |-> openTime + 1]

\* bar series of at most MaxBars bars, the openTime of a bar being its
\* index: strictly increasing; a bar is flat without volume, rising, or falling
BarSeries ==
    LET BarAt(t, kind) == CASE kind = 1 -> Bar(t, 2, 2, 2, 2, 0)
                            [] kind = 2 -> Bar(t, 2, 4, 1, 3, 2)
                            [] kind = 3 -> Bar(t, 3, 3, 1, 1, 1)
    IN  UNION {{[t \in 1..n |-> BarAt(t, kinds[t])] : kinds \in [1..n -> 1..3]} :
                  n \in 0..MaxBars}

\* the record of a call that returned
IndicatorsReturned(fn, data, period, result) ==
    [fn |-> fn, data |-> data, after |-> data, period |-> period,
     result |-> result, threw |-> FALSE, error |-> ""]

IndicatorsInit ==
    /\ users = [u \in UserIds |-> User(NoSettings)]
    /\ orders = <<>>
    /\ positions = PositionTable(FALSE, <<>>)
    /\ now = 0
    /\ req = [r \in Reqs |-> NoRequest]
    /\ call = NoCall
    /\ backtest = <<>>
    /\ kelly = NoKelly
    /\ \E data \in BarSeries : indicators = [NoIndicators EXCEPT !.data = data, !.after = data]
    /\ strategy = NoStrategy

\* the indicator functions of the signature (data) or (data, period)
Indicator(fn, data, period) ==
    CASE fn = "calculateSMA" -> CalculateSMA(data, period)
      [] fn = "calculateEMA" -> CalculateEMA(data, period)
      [] fn = "calculateRSI" -> CalculateRSI(data, period)
      [] fn = "calculateATR" -> CalculateATR(data, period)
      [] fn = "calculateVWAP" -> CalculateVWAP(data)
      [] fn = "calculateBollingerBands" -> CalculateBollingerBands(data, period)
      [] fn = "calculateStochastic" -> CalculateStochastic(data, period)
      [] fn = "calculateWilliamsR" -> CalculateWilliamsR(data, period)
      [] fn = "calculatePSAR" -> CalculatePSAR(data)
      [] fn = "calculateOBV" -> CalculateOBV(data)
      [] fn = "calculateMFI" -> CalculateMFI(data, period)
      [] fn = "calculateIchimoku" -> CalculateIchimoku(data)

Indicators ==
    {"calculateSMA", "calculateEMA", "calculateRSI", "calculateATR", "calculateVWAP",
     "calculateBollingerBands", "calculateStochastic", "calculateWilliamsR",
     "calculatePSAR", "calculateOBV", "calculateMFI", "calculateIchimoku"}

CallIndicator(fn, period) ==
    /\ indicators.fn = ""
    /\ indicators' = IndicatorsReturned(fn, indicators.data, period,
                                        Indicator(fn, indicators.data, period))
    /\ UNCHANGED <<backtest, users, orders, positions, now, req, call, kelly, strategy>>

CallCalculateSupportResistance(window) ==
    /\ indicators.fn = ""
    /\ indicators' = IndicatorsReturned("calculateSupportResistance", indicators.data,
                                        window,
                                        CalculateSupportResistance(indicators.data, window))
    /\ UNCHANGED <<backtest, users, orders, positions, now, req, call, kelly, strategy>>

CallCalculateMACD(fastPeriod, slowPeriod, signalPeriod) ==
    /\ indicators.fn = ""
    /\ fastPeriod <= slowPeriod
    /\ indicators' = IndicatorsReturned("calculateMACD", indicators.data, slowPeriod,
                                        CalculateMACD(indicators.data, fastPeriod,
                                                      slowPeriod, signalPeriod))
    /\ UNCHANGED <<backtest, users, orders, positions, now, req, call, kelly, strategy>>

CallCalculateFibonacciRetracement(swingHigh, swingLow) ==
    /\ indicators.fn = ""
    /\ indicators' = IndicatorsReturned("calculateFibonacciRetracement", indicators.data, 0,
                                        CalculateFibonacciRetracement(indicators.data,
                                                                      swingHigh, swingLow))
    /\ UNCHANGED <<backtest, users, orders, positions, now, req, call, kelly, strategy>>

CallCalculateAllIndicators(options) ==
    /\ indicators.fn = ""
    /\ LET Outcome(outcome) ==
               [fn |-> "calculateAllIndicators", data |-> indicators.data,
                after |-> indicators.data, period |-> 0, result |-> outcome.result,
                threw |-> outcome.threw, error |-> outcome.error]
       IN  indicators' = Outcome(CalculateAllIndicators(indicators.data, options))
    /\ UNCHANGED <<backtest, users, orders, positions, now, req, call, kelly, strategy>>

\* calculateAllIndicators is called without options, or with short periods
IndicatorsNext ==
    \/ \E fn \in Indicators, period \in 1..MaxPeriod : CallIndicator(fn, period)
    \/ \E window \in 1..MaxPeriod : CallCalculateSupportResistance(window)
    \/ \E fastPeriod, slowPeriod, signalPeriod \in 1..MaxPeriod :
          CallCalculateMACD(fastPeriod, slowPeriod, signalPeriod)
    \/ \E swingLow \in {1, 2} : CallCalculateFibonacciRetracement(4, swingLow)
    \/ \E options \in {<<>>,
                       [sma |-> [periods |-> <<2, 3>>], ema |-> [periods |-> <<2>>],
                        rsi |-> [period |-> 2],
                        macd |-> [fastPeriod |-> 1, slowPeriod |-> 2, signalPeriod |-> 2],
                        atr |-> [period |-> 2]]} :
          CallCalculateAllIndicators(options)

IndicatorsSpec == IndicatorsInit /\ [][IndicatorsNext]_vars

----------------------------------------------------------------------------
(* Properties of the indicator functions *)

\* C17: the sma that calculateSMA attaches at index i >= p-1 is the mean of
\* the closes at i-p+1..i, and calculateSMA run again on the same input gives
\* the same output.  (Index i of the code is index i + 1 here.)
C17_SMAIsTrailingMean ==
    indicators.fn = "calculateSMA" =>
       LET data == indicators.data
           p == indicators.period
       IN  /\ \A i \in DOMAIN data :
                 i >= p => indicators.result[i].sma =
                              Frac(SumSeq(SubSeq(Closes(data), i - p + 1, i)), p)
           /\ CalculateSMA(data, p) = indicators.result

\* C20: calculateVWAP attaches at every index i the sum of typicalPrice *
\* volume over 0..i divided by the sum of volume over 0..i, typicalPrice
\* being (high + low + close) / 3, accumulated from the start without reset,
\* and null wherever the cumulative volume is 0.
C20_VWAPIsCumulative ==
    indicators.fn = "calculateVWAP" =>
       LET data == indicators.data
           \* the sum of (high + low + close) * volume, and of volume, over 1..i
           TripleTPV(i) ==
               SumSeq([j \in 1..i |->
                          (data[j].high + data[j].low + data[j].close) * data[j].volume])
           TotalVolume(i) == SumSeq([j \in 1..i |-> data[j].volume])
       IN  \A i \in DOMAIN data :
              IF TotalVolume(i) = 0
              THEN indicators.result[i].vwap = Null
              ELSE /\ IsFrac(indicators.result[i].vwap)
                   /\ indicators.result[i].vwap.n * 3 * TotalVolume(i)
                         = TripleTPV(i) * indicators.result[i].vwap.d

\* a series that starts without volume and then trades twice: null first,
\* then a vwap that differs from the typical price of the last bar alone
C20_Witness ==
    /\ indicators.fn = "calculateVWAP"
    /\ Len(indicators.data) >= 3
    /\ indicators.result[1].vwap = Null
    /\ \E i \in DOMAIN indicators.data :
          /\ indicators.data[i].volume > 0
          /\ IsFrac(indicators.result[i].vwap)
          /\ indicators.result[i].vwap
                # Frac(indicators.data[i].high + indicators.data[i].low
                          + indicators.data[i].close, 3)

\* the fields an indicator function attaches
FieldsOf(fn) ==
    CASE fn = "calculateSMA" -> {"sma"}
      [] fn = "calculateEMA" -> {"ema"}
      [] fn = "calculateRSI" -> {"rsi"}
      [] fn = "calculateATR" -> {"atr"}
      [] fn = "calculateVWAP" -> {"vwap"}
      [] fn = "calculateSupportResistance" -> {"supports", "resistances"}
      [] fn = "calculateMACD" -> {"macd"}
      [] fn = "calculateBollingerBands" -> {"bollingerBands"}
      [] fn = "calculateStochastic" -> {"stochastic"}
      [] fn = "calculateWilliamsR" -> {"williamsR"}
      [] fn = "calculatePSAR" -> {"psar"}
      [] fn = "calculateOBV" -> {"obv"}
      [] fn = "calculateMFI" -> {"mfi"}
      [] fn = "calculateIchimoku" -> {"ichimoku"}
      [] fn = "calculateFibonacciRetracement" -> {"fibonacci"}

\* C16: for a period-based indicator (SMA, EMA, RSI, ATR) with period p on a
\* series of length n >= p the first p-1 points are null and every point
\* from index p-1 on is non-null.  (Index i of the code is index i + 1 here.)
C16_WarmUpNullsThenValues ==
    (/\ indicators.fn \in {"calculateSMA", "calculateEMA", "calculateRSI", "calculateATR"}
     /\ Len(indicators.data) >= indicators.period) =>
       \A i \in DOMAIN indicators.data, f \in FieldsOf(indicators.fn) :
          (indicators.result[i][f] = Null) <=> i < indicators.period

\* C19: an indicator function leaves its input series as it was and returns
\* a series of the same length and order in which each point has every
\* field of the input bar at that index, with the bar's value, plus the
\* indicator's own field.
C19_InputKeptAndBarsExtended ==
    indicators.fn \in Indicators \cup {"calculateSupportResistance", "calculateMACD",
                                       "calculateFibonacciRetracement"} =>
       /\ ~indicators.threw
       /\ indicators.after = indicators.data
       /\ DOMAIN indicators.result = DOMAIN indicators.data
       /\ \A i \in DOMAIN indicators.data :
             /\ DOMAIN indicators.result[i]
                   = DOMAIN indicators.data[i] \cup FieldsOf(indicators.fn)
             /\ \A f \in DOMAIN indicators.data[i] :
                   indicators.result[i][f] = indicators.data[i][f]

\* a series of MaxBars bars with a support in it went through
\* calculateSupportResistance
C19_Witness ==
    /\ indicators.fn = "calculateSupportResistance"
    /\ Len(indicators.data) = MaxBars
    /\ Len(indicators.result) = MaxBars
    /\ indicators.result[MaxBars].supports # <<>>
    /\ indicators.result[1].supports = <<>>

\* C18: calculateAllIndicators completes on every structurally valid bar
\* series and returns the per-bar series, of the length of the input, with
\* the indicators attached, and the supports and the resistances as separate
\* results; when it does not complete, it reports the one indicator that
\* failed.
C18_ComputeAllCompletes ==
    indicators.fn = "calculateAllIndicators" =>
       IF indicators.threw
       THEN indicators.error \in
               {"Error calculating SMA", "Error calculating EMA", "Error calculating RSI",
                "Error calculating MACD", "Error calculating Bollinger Bands",
                "Error calculating Stochastic", "Error calculating Williams %R",
                "Error calculating ATR", "Error calculating PSAR",
                "Error calculating VWAP", "Error calculating OBV",
                "Error calculating MFI", "Error calculating Ichimoku Cloud",
                "Error calculating Support/Resistance"}
       ELSE /\ DOMAIN indicators.result = {"data", "supports", "resistances"}
            /\ Len(indicators.result.data) = Len(indicators.data)
            /\ indicators.result.supports # Missing
            /\ indicators.result.resistances # Missing

\* C21: calculateSupportResistance marks index i as a support (resistance)
\* exactly when i has window bars on both sides and its low (high) is the
\* minimum (maximum) of the 2 * window + 1 bars centered on i; the point at
\* index p carries, in the order of the indices, exactly the supports and
\* resistances whose timestamp is at or before the openTime of p.
C21_LocalExtremesWithoutLookAhead ==
    indicators.fn = "calculateSupportResistance" =>
       LET data == indicators.data
           window == indicators.period
           full(i) == i - window \in DOMAIN data /\ i + window \in DOMAIN data
           around(i) == (i - window)..(i + window)
           lows == {i \in DOMAIN data :
                       full(i) /\ \A j \in around(i) : data[j].low >= data[i].low}
           highs == {i \in DOMAIN data :
                        full(i) /\ \A j \in around(i) : data[j].high <= data[i].high}
           Known(extremes, p) == {i \in extremes : data[i].openTime <= data[p].openTime}
           Marks(levels, extremes, side) ==
               /\ Len(levels) = Cardinality(extremes)
               /\ {levels[k].index + 1 : k \in DOMAIN levels} = extremes
               /\ \A k \in DOMAIN levels :
                     /\ levels[k].price = data[levels[k].index + 1][side]
                     /\ levels[k].timestamp = data[levels[k].index + 1].openTime
                     /\ \A l \in DOMAIN levels : k < l => levels[k].index < levels[l].index
       IN  \A p \in DOMAIN data :
              /\ Marks(indicators.result[p].supports, Known(lows, p), "low")
              /\ Marks(indicators.result[p].resistances, Known(highs, p), "high")

\* calculateSupportResistance returned a series in which a bar carries a
\* resistance that the bar before it does not carry yet
C21_Witness ==
    /\ indicators.fn = "calculateSupportResistance"
    /\ \E p \in DOMAIN indicators.result :
          /\ p > 1
          /\ indicators.result[p - 1].resistances = <<>>
          /\ indicators.result[p].resistances # <<>>
          /\ indicators.result[p].resistances[1].index = p - 1

----------------------------------------------------------------------------
(* TradingStrategyService                                                  *)
(* An evaluator gives [threw, result]: the error it throws ("" for none)   *)
(* and the Signal it returns.                                              *)

\* const {name = default} = options
Option(options, name, default) ==
    IF name \in DOMAIN options THEN options[name] ELSE default

\* { signal: 'HOLD', confidence: 0, reason: 'Insufficient data' }
InsufficientData ==
    [threw |-> "",
     result |-> [signal |-> "HOLD", confidence |-> Whole(0), reason |-> "Insufficient data"]]

\* price * (1 + percent / 100) and price * (1 - percent / 100)
PercentFrom(price, op, percent) ==
    Arith("*", price, Arith(op, Whole(1), Arith("/", percent, Whole(100))))

\* executeScalpingStrategy(symbol, data, options), macdFast <= macdSlow
ExecuteScalpingStrategy(data, options) ==
    LET rsiPeriod == Option(options, "rsiPeriod", 14)
        rsiOverbought == Option(options, "rsiOverbought", Whole(70))
        rsiOversold == Option(options, "rsiOversold", Whole(30))
        macdFast == Option(options, "macdFast", 12)
        macdSlow == Option(options, "macdSlow", 26)
        macdSignal == Option(options, "macdSignal", 9)
        stopLoss == Option(options, "stopLoss", Frac(1, 2))
        takeProfit == Option(options, "takeProfit", Whole(1))
        \* the object returned
        Signal(current, rsiSignal, macdSignalValue, combined) ==
            [threw |-> "",
             result |->
                [signal |-> combined[1], confidence |-> combined[2], reason |-> combined[3],
                 currentPrice |-> Whole(current.close),
                 indicators |-> [rsi |-> current.rsi, macd |-> current.macd,
                                 rsiSignal |-> rsiSignal, macdSignal |-> macdSignalValue],
                 riskManagement |->
                    [stopLoss |-> PercentFrom(Whole(current.close), "-", stopLoss),
                     takeProfit |-> PercentFrom(Whole(current.close), "+", takeProfit)]]]
        \* signal, confidence and reason from the two votes
        Combine(current, rsiSignal, macdSignalValue) ==
            Signal(current, rsiSignal, macdSignalValue,
                   IF rsiSignal = "BUY" /\ macdSignalValue = "BUY"
                   THEN <<"BUY", Frac(8, 10), "RSI oversold + MACD bullish crossover">>
                   ELSE IF rsiSignal = "SELL" /\ macdSignalValue = "SELL"
                   THEN <<"SELL", Frac(8, 10), "RSI overbought + MACD bearish crossover">>
                   ELSE IF rsiSignal = "BUY" \/ macdSignalValue = "BUY"
                   THEN <<"BUY", Frac(6, 10),
                          IF rsiSignal = "BUY" THEN "RSI oversold"
                          ELSE "MACD bullish crossover">>
                   ELSE IF rsiSignal = "SELL" \/ macdSignalValue = "SELL"
                   THEN <<"SELL", Frac(6, 10),
                          IF rsiSignal = "SELL" THEN "RSI overbought"
                          ELSE "MACD bearish crossover">>
                   ELSE <<"HOLD", Whole(0), "">>)
        \* if (!current || !previous) return ...; then rsiSignal and macdSignal
        Latest(current, previous) ==
            IF current = Missing \/ previous = Missing THEN InsufficientData
            ELSE Combine(current,
                         IF Compare("<", current.rsi, rsiOversold) THEN "BUY"
                         ELSE IF Compare(">", current.rsi, rsiOverbought) THEN "SELL"
                         ELSE "HOLD",
                         IF current.macd # Null /\ previous.macd # Null
                         THEN IF /\ Compare(">", current.macd.histogram, Whole(0))
                                 /\ Compare("<=", previous.macd.histogram, Whole(0))
                              THEN "BUY"
                              ELSE IF /\ Compare("<", current.macd.histogram, Whole(0))
                                      /\ Compare(">=", previous.macd.histogram, Whole(0))
                              THEN "SELL"
                              ELSE "HOLD"
                         ELSE "HOLD")
        \* current = result[result.length - 1], previous = result[result.length - 2]
        Last(result) == Latest(At(result, Len(result) - 1), At(result, Len(result) - 2))
    IN  Last(CalculateMACD(CalculateRSI(data, rsiPeriod), macdFast, macdSlow, macdSignal))

\* executeDayTradingStrategy(symbol, data, options)
ExecuteDayTradingStrategy(data, options) ==
    LET smaShort == Option(options, "smaShort", 20)
        smaLong == Option(options, "smaLong", 50)
        rsiPeriod == Option(options, "rsiPeriod", 14)
        volumeThreshold == Option(options, "volumeThreshold", Frac(3, 2))
        stopLoss == Option(options, "stopLoss", Whole(2))
        takeProfit == Option(options, "takeProfit", Whole(4))
        \* the object returned
        Signal(current, volumeRatio, trendSignal, rsiSignal, volumeSignal, combined) ==
            [threw |-> "",
             result |->
                [signal |-> combined[1], confidence |-> combined[2], reason |-> combined[3],
                 currentPrice |-> Whole(current.close),
                 indicators |-> [smaShort |-> current.sma,
                                 smaLong |-> Field(current, "smaLong"),
                                 rsi |-> current.rsi, volumeRatio |-> volumeRatio,
                                 trendSignal |-> trendSignal, rsiSignal |-> rsiSignal,
                                 volumeSignal |-> volumeSignal],
                 riskManagement |->
                    [stopLoss |-> PercentFrom(Whole(current.close), "-", stopLoss),
                     takeProfit |-> PercentFrom(Whole(current.close), "+", takeProfit)]]]
        \* signal, confidence and reason from the three votes
        Combine(current, volumeRatio, trendSignal, rsiSignal, volumeSignal) ==
            Signal(current, volumeRatio, trendSignal, rsiSignal, volumeSignal,
                   IF trendSignal = "BULLISH" /\ rsiSignal = "BUY" /\ volumeSignal = "HIGH"
                   THEN <<"BUY", Frac(9, 10), "Bullish trend + RSI oversold + High volume">>
                   ELSE IF /\ trendSignal = "BEARISH" /\ rsiSignal = "SELL"
                           /\ volumeSignal = "HIGH"
                   THEN <<"SELL", Frac(9, 10), "Bearish trend + RSI overbought + High volume">>
                   ELSE IF trendSignal = "BULLISH" /\ rsiSignal = "BUY"
                   THEN <<"BUY", Frac(7, 10), "Bullish trend + RSI oversold">>
                   ELSE IF trendSignal = "BEARISH" /\ rsiSignal = "SELL"
                   THEN <<"SELL", Frac(7, 10), "Bearish trend + RSI overbought">>
                   ELSE <<"HOLD", Whole(0), "">>)
        \* trendSignal, rsiSignal and volumeSignal
        Vote(current, volumeRatio) ==
            Combine(current, volumeRatio,
                    IF Compare(">", current.sma, Field(current, "smaLong")) THEN "BULLISH"
                    ELSE "BEARISH",
                    IF Compare("<", current.rsi, Whole(30)) THEN "BUY"
                    ELSE IF Compare(">", current.rsi, Whole(70)) THEN "SELL"
                    ELSE "HOLD",
                    IF Compare(">", volumeRatio, volumeThreshold) THEN "HIGH" ELSE "NORMAL")
        \* current.volume / avgVolume: NaN for 0 / 0
        Volume(current, total) ==
            Vote(current, IF total = 0 THEN NotANumber ELSE Frac(current.volume * 20, total))
        \* data.slice(-20).reduce((sum, d) => sum + d.volume, 0) / 20
        AvgVolume(current, recent) ==
            Volume(current, SumSeq([i \in DOMAIN recent |-> recent[i].volume]))
        Latest(current, previous) ==
            IF current = Missing \/ previous = Missing THEN InsufficientData
            ELSE AvgVolume(current,
                           SubSeq(data, IF Len(data) > 20 THEN Len(data) - 19 ELSE 1,
                                  Len(data)))
        Last(result) == Latest(At(result, Len(result) - 1), At(result, Len(result) - 2))
    IN  Last(CalculateRSI(CalculateSMA(CalculateSMA(data, smaShort), smaLong), rsiPeriod))

\* executeSwingTradingStrategy(symbol, data, options)
ExecuteSwingTradingStrategy(data, options) ==
    LET emaShort == Option(options, "emaShort", 12)
        emaLong == Option(options, "emaLong", 26)
        rsiPeriod == Option(options, "rsiPeriod", 14)
        atrPeriod == Option(options, "atrPeriod", 14)
        stopLossMultiplier == Option(options, "stopLossMultiplier", Whole(2))
        takeProfitMultiplier == Option(options, "takeProfitMultiplier", Whole(3))
        \* the object returned
        Signal(current, close, atr, trendSignal, rsiSignal, momentumSignal, combined) ==
            [threw |-> "",
             result |->
                [signal |-> combined[1], confidence |-> combined[2], reason |-> combined[3],
                 currentPrice |-> close,
                 indicators |-> [emaShort |-> current.ema,
                                 emaLong |-> Field(current, "emaLong"),
                                 rsi |-> current.rsi, atr |-> current.atr,
                                 trendSignal |-> trendSignal, rsiSignal |-> rsiSignal,
                                 momentumSignal |-> momentumSignal],
                 riskManagement |->
                    [stopLoss |->
                        Arith(IF combined[1] = "BUY" THEN "-" ELSE "+", close,
                              Arith("*", atr, stopLossMultiplier)),
                     takeProfit |->
                        Arith(IF combined[1] = "BUY" THEN "+" ELSE "-", close,
                              Arith("*", atr, takeProfitMultiplier))]]]
        \* signal, confidence and reason from the three votes; atr is
        \* current.atr || 0
        Combine(current, trendSignal, rsiSignal, momentumSignal) ==
            Signal(current, Whole(current.close),
                   IF OrNull(current.atr) = Null THEN Whole(0) ELSE current.atr,
                   trendSignal, rsiSignal, momentumSignal,
                   IF /\ trendSignal = "BULLISH" /\ rsiSignal = "BUY"
                      /\ momentumSignal = "BULLISH"
                   THEN <<"BUY", Frac(85, 100),
                          "Bullish trend + RSI oversold + Bullish momentum">>
                   ELSE IF /\ trendSignal = "BEARISH" /\ rsiSignal = "SELL"
                           /\ momentumSignal = "BEARISH"
                   THEN <<"SELL", Frac(85, 100),
                          "Bearish trend + RSI overbought + Bearish momentum">>
                   ELSE IF trendSignal = "BULLISH" /\ rsiSignal = "BUY"
                   THEN <<"BUY", Frac(7, 10), "Bullish trend + RSI oversold">>
                   ELSE IF trendSignal = "BEARISH" /\ rsiSignal = "SELL"
                   THEN <<"SELL", Frac(7, 10), "Bearish trend + RSI overbought">>
                   ELSE <<"HOLD", Whole(0), "">>)
        \* trendSignal, rsiSignal and momentumSignal
        Latest(current, previous) ==
            IF current = Missing \/ previous = Missing THEN InsufficientData
            ELSE Combine(current,
                         IF Compare(">", current.ema, Field(current, "emaLong"))
                         THEN "BULLISH" ELSE "BEARISH",
                         IF Compare("<", current.rsi, Whole(40)) THEN "BUY"
                         ELSE IF Compare(">", current.rsi, Whole(60)) THEN "SELL"
                         ELSE "HOLD",
                         IF Compare(">", current.ema, previous.ema) THEN "BULLISH"
                         ELSE "BEARISH")
        Last(result) == Latest(At(result, Len(result) - 1), At(result, Len(result) - 2))
    IN  Last(CalculateATR(CalculateRSI(CalculateEMA(CalculateEMA(data, emaShort), emaLong),
                                       rsiPeriod),
                          atrPeriod))

\* executeGridTradingStrategy(symbol, data, options), gridLevels > 0; the
\* level number of the reason is currentLevel.level
ExecuteGridTradingStrategy(data, options) ==
    LET gridLevels == Option(options, "gridLevels", 10)
        gridSpacing == Option(options, "gridSpacing", Whole(1))
        basePrice == Option(options, "basePrice", Null)
        totalInvestment == Option(options, "totalInvestment", Whole(1000))
        \* the object returned
        Signal(currentPrice, gridLevelsArray, currentLevel, combined) ==
            [threw |-> "",
             result |->
                [signal |-> combined[1], confidence |-> combined[2], reason |-> combined[3],
                 currentPrice |-> currentPrice, gridLevels |-> gridLevelsArray,
                 currentLevel |-> currentLevel, strategy |-> "grid"]]
        Abs(x) == IF x.n < 0 THEN Frac(-x.n, x.d) ELSE x
        \* Math.abs(currentPrice - price) / currentPrice
        Distance(currentPrice, price) ==
            Abs(Arith("/", Arith("-", currentPrice, price), currentPrice))
        \* signal, confidence and reason from the level that holds the price
        Combine(currentPrice, gridLevelsArray, currentLevel) ==
            Signal(currentPrice, gridLevelsArray, currentLevel,
                   IF currentLevel = Missing
                   THEN <<"HOLD", Frac(5, 10), "Grid trading - monitoring levels">>
                   ELSE IF Compare("<", Distance(currentPrice, currentLevel.buyPrice),
                                   Frac(1, 10))
                   THEN <<"BUY", Frac(8, 10), "Grid buy level reached">>
                   ELSE IF Compare("<", Distance(currentPrice, currentLevel.sellPrice),
                                   Frac(1, 10))
                   THEN <<"SELL", Frac(8, 10), "Grid sell level reached">>
                   ELSE <<"HOLD", Frac(5, 10), "Grid trading - monitoring levels">>)
        \* gridLevelsArray.find(...): the first level that holds the price
        Find(currentPrice, gridLevelsArray) ==
            LET holding == {level \in 1..gridLevels :
                               /\ Compare(">=", currentPrice, gridLevelsArray[level].buyPrice)
                               /\ Compare("<=", currentPrice,
                                          gridLevelsArray[level].sellPrice)}
            IN  IF holding = {} THEN Missing
                ELSE gridLevelsArray[CHOOSE l \in holding : \A m \in holding : l <= m]
        Levels(currentPrice, gridLevelsArray) ==
            Combine(currentPrice, gridLevelsArray, Find(currentPrice, gridLevelsArray))
        \* investmentPerLevel / buyPrice: Infinity for a buyPrice of 0
        Level(level, buyPrice, sellPrice, investmentPerLevel) ==
            [level |-> level, buyPrice |-> buyPrice, sellPrice |-> sellPrice,
             investment |-> investmentPerLevel,
             quantity |-> IF buyPrice.n = 0 THEN [t |-> "Infinity", n |-> 1, d |-> 0]
                          ELSE Arith("/", investmentPerLevel, buyPrice)]
        \* basePrice * (1 - step) and basePrice * (1 + step), step being
        \* (gridSpacing / 100) * level
        Priced(level, basePriceValue, investmentPerLevel, step) ==
            Level(level, Arith("*", basePriceValue, Arith("-", Whole(1), step)),
                  Arith("*", basePriceValue, Arith("+", Whole(1), step)), investmentPerLevel)
        GridLevelsArray(basePriceValue, investmentPerLevel) ==
            [level \in 1..gridLevels |->
                Priced(level, basePriceValue, investmentPerLevel,
                       Arith("*", Arith("/", gridSpacing, Whole(100)), Whole(level)))]
        \* basePrice || currentPrice, and totalInvestment / gridLevels
        Grid(currentPrice) ==
            Levels(currentPrice,
                   GridLevelsArray(IF OrNull(basePrice) = Null THEN currentPrice
                                   ELSE basePrice,
                                   Arith("/", totalInvestment, Whole(gridLevels))))
    IN  \* data[data.length - 1].close on an empty array
        IF data = <<>>
        THEN [threw |-> "TypeError: Cannot read properties of undefined (reading 'close')",
              result |-> <<>>]
        ELSE Grid(Whole(data[Len(data)].close))

\* what binanceService.getCurrentPrice gives for a symbol: a number, NaN
\* (parseFloat of a missing price), or a thrown error
PriceReadFails == [t |-> "throws", n |-> 0, d |-> 1]

\* executeTriangularArbitrageStrategy(symbols, data, options); prices is
\* what binanceService.getCurrentPrice gives for each symbol
ExecuteTriangularArbitrageStrategy(symbols, prices, options) ==
    LET minProfitThreshold == Option(options, "minProfitThreshold", Frac(1, 2))
        read == [symbol \in {symbols[i] : i \in DOMAIN symbols} |-> prices[symbol]]
        price(symbol) == OrNull(Field(read, symbol))
        trades == <<[from |-> "USDT", to |-> "BTC", rate |-> price("BTCUSDT")],
                    [from |-> "BTC", to |-> "ETH", rate |-> price("ETHBTC")],
                    [from |-> "ETH", to |-> "USDT", rate |-> price("ETHUSDT")]>>
        \* if (opportunities.length > 0) ...
        Return(opportunities) ==
            IF opportunities # <<>>
            THEN [threw |-> "",
                  result |-> [signal |-> "ARBITRAGE", confidence |-> Frac(9, 10),
                              reason |-> "Arbitrage opportunity",
                              opportunities |-> opportunities,
                              bestOpportunity |-> opportunities[1],
                              strategy |-> "arbitrage"]]
            ELSE [threw |-> "",
                  result |-> [signal |-> "HOLD", confidence |-> Frac(5, 10),
                              reason |-> "No arbitrage opportunities found",
                              opportunities |-> <<>>]]
        \* if (profit > minProfitThreshold) opportunities.push(...)
        Opportunities(profit) ==
            IF Compare(">", profit, minProfitThreshold)
            THEN <<[path |-> "USDT -> BTC -> ETH -> USDT", profit |-> profit,
                    trades |-> trades]>>
            ELSE <<>>
        \* path1 = 1 / BTCUSDT, path2 = path1 / ETHBTC, path3 = path2 * ETHUSDT,
        \* profit = (path3 - 1) * 100
        Profit(btcUsdt, ethBtcPrice, ethUsdt) ==
            Arith("*",
                  Arith("-",
                        Arith("*", Arith("/", Arith("/", Whole(1), btcUsdt), ethBtcPrice),
                              ethUsdt),
                        Whole(1)),
                  Whole(100))
    IN  IF \E i \in DOMAIN symbols : prices[symbols[i]] = PriceReadFails
        THEN [threw |-> "",
              result |-> [signal |-> "HOLD", confidence |-> Whole(0),
                          reason |-> "Error getting prices"]]
        ELSE IF price("BTCUSDT") # Null /\ price("ETHBTC") # Null /\ price("ETHUSDT") # Null
        THEN Return(Opportunities(Profit(price("BTCUSDT"), price("ETHBTC"),
                                         price("ETHUSDT"))))
        ELSE Return(<<>>)

\* executeMeanReversionStrategy(symbol, data, options), lookbackPeriod > 0 and
\* stdDevThreshold >= 0.  stdDev is the square root of variance, so
\* zScore > stdDevThreshold is  price > mean  and
\* (price - mean)^2 > stdDevThreshold^2 * variance, also for a variance of 0
\* (zScore Infinity); zScore is NaN for price = mean and variance = 0.
ExecuteMeanReversionStrategy(data, options) ==
    LET lookbackPeriod == Option(options, "lookbackPeriod", 20)
        stdDevThreshold == Option(options, "stdDevThreshold", Whole(2))
        rsiPeriod == Option(options, "rsiPeriod", 14)
        stopLoss == Option(options, "stopLoss", Whole(3))
        takeProfit == Option(options, "takeProfit", Whole(2))
        \* the object returned
        Signal(current, mean, variance, zScore, combined) ==
            [threw |-> "",
             result |->
                [signal |-> combined[1], confidence |-> combined[2], reason |-> combined[3],
                 currentPrice |-> Whole(current.close),
                 indicators |-> [mean |-> mean, variance |-> variance, zScore |-> zScore,
                                 rsi |-> current.rsi],
                 riskManagement |->
                    [stopLoss |-> PercentFrom(Whole(current.close),
                                              IF combined[1] = "BUY" THEN "-" ELSE "+",
                                              stopLoss),
                     takeProfit |-> PercentFrom(Whole(current.close),
                                                IF combined[1] = "BUY" THEN "+" ELSE "-",
                                                takeProfit)]]]
        \* signal, confidence and reason from zScore and current.rsi
        Combine(current, mean, variance, zScore) ==
            Signal(current, mean, variance, zScore,
                   IF zScore = "above" /\ Compare(">", current.rsi, Whole(70))
                   THEN <<"SELL", Frac(8, 10),
                          "standard deviations above mean + RSI overbought">>
                   ELSE IF zScore = "below" /\ Compare("<", current.rsi, Whole(30))
                   THEN <<"BUY", Frac(8, 10),
                          "standard deviations below mean + RSI oversold">>
                   ELSE IF zScore = "above"
                   THEN <<"SELL", Frac(6, 10), "standard deviations above mean">>
                   ELSE IF zScore = "below"
                   THEN <<"BUY", Frac(6, 10), "standard deviations below mean">>
                   ELSE <<"HOLD", Whole(0), "">>)
        \* zScore = (currentPrice - mean) / stdDev against stdDevThreshold
        ZScore(deviation, variance, beyond) ==
            IF deviation.n = 0 /\ variance.n = 0 THEN "NaN"
            ELSE IF deviation.n > 0 /\ beyond THEN "above"
            ELSE IF deviation.n < 0 /\ beyond THEN "below"
            ELSE "within"
        Deviate(current, mean, variance, deviation) ==
            Combine(current, mean, variance,
                    ZScore(deviation, variance,
                           Compare(">", Arith("*", deviation, deviation),
                                   Arith("*", Arith("*", stdDevThreshold, stdDevThreshold),
                                         variance))))
        Latest(current, mean, variance) ==
            IF current = Missing THEN InsufficientData
            ELSE Deviate(current, mean, variance, Arith("-", Whole(current.close), mean))
        Square(d) == Arith("*", d, d)
        \* recentPrices.reduce((sum, price) => sum + Math.pow(price - mean, 2), 0)
        \* / recentPrices.length
        Variance(current, recentPrices, mean) ==
            Latest(current, mean,
                   Arith("/",
                         FSumSeq([i \in DOMAIN recentPrices |->
                                     Square(Arith("-", Whole(recentPrices[i]), mean))]),
                         Whole(Len(recentPrices))))
        \* mean = recentPrices.reduce((sum, price) => sum + price, 0) / length
        Mean(current, recentPrices) ==
            Variance(current, recentPrices, Frac(SumSeq(recentPrices), Len(recentPrices)))
        \* prices.slice(-lookbackPeriod)
        Recent(current, prices) ==
            Mean(current,
                 SubSeq(prices,
                        IF Len(prices) > lookbackPeriod
                        THEN Len(prices) - lookbackPeriod + 1 ELSE 1,
                        Len(prices)))
        Last(result) == Recent(At(result, Len(result) - 1), Closes(data))
    IN  Last(CalculateRSI(data, rsiPeriod))

\* the evaluators that take (symbol, data, options), by the name of the method
Evaluate(fn, data, options) ==
    CASE fn = "executeScalpingStrategy" -> ExecuteScalpingStrategy(data, options)
      [] fn = "executeDayTradingStrategy" -> ExecuteDayTradingStrategy(data, options)
      [] fn = "executeSwingTradingStrategy" -> ExecuteSwingTradingStrategy(data, options)
      [] fn = "executeGridTradingStrategy" -> ExecuteGridTradingStrategy(data, options)
      [] fn = "executeMeanReversionStrategy" -> ExecuteMeanReversionStrategy(data, options)

\* strategyType.toLowerCase() on the names used here
ToLowerCase(name) ==
    CASE name = "SCALPING" -> "scalping"
      [] name = "Grid_Trading" -> "grid_trading"
      [] OTHER -> name

\* executeStrategy(strategyType, symbol, data, options): the outcome and the
\* evaluators it called
ExecuteStrategyMutant(strategyType, data, options) ==
    LET fn == CASE ToLowerCase(strategyType) = "day_trading" -> "executeDayTradingStrategy"
                [] ToLowerCase(strategyType) = "swing_trading" -> "executeSwingTradingStrategy"
                [] ToLowerCase(strategyType) = "grid_trading" -> "executeGridTradingStrategy"
                [] ToLowerCase(strategyType) = "mean_reversion" -> "executeMeanReversionStrategy"
                [] OTHER -> "executeScalpingStrategy"
        Outcome(outcome) ==
            [threw |-> outcome.threw, result |-> outcome.result, evaluated |-> <<fn>>]
    IN  Outcome(Evaluate(fn, data, options))
ExecuteStrategy(strategyType, data, options) ==
    LET fn == CASE ToLowerCase(strategyType) = "scalping" -> "executeScalpingStrategy"
                [] ToLowerCase(strategyType) = "day_trading" -> "executeDayTradingStrategy"
                [] ToLowerCase(strategyType) = "swing_trading" -> "executeSwingTradingStrategy"
                [] ToLowerCase(strategyType) = "grid_trading" -> "executeGridTradingStrategy"
                [] ToLowerCase(strategyType) = "mean_reversion" -> "executeMeanReversionStrategy"
                [] OTHER -> ""
        Outcome(outcome) ==
            [threw |-> outcome.threw, result |-> outcome.result, evaluated |-> <<fn>>]
    IN  IF fn = ""
        THEN [threw |-> "Unknown strategy type", result |-> <<>>, evaluated |-> <<>>]
        ELSE Outcome(Evaluate(fn, data, options))

\* the values of Strategy.type
StrategyTypes ==
    {"scalping", "day_trading", "swing_trading", "position_trading", "arbitrage",
     "grid_trading", "dca"}

----------------------------------------------------------------------------
(* The strategies called one at a time on a bar series *)

\* the parameters of a call: none, short periods with a grid around 2, and
\* a grid far from the price
StrategyOptions ==
    {<<>>,
     [rsiPeriod |-> 2, macdFast |-> 1, macdSlow |-> 2, macdSignal |-> 2,
      smaShort |-> 1, smaLong |-> 2, emaShort |-> 1, emaLong |-> 2, atrPeriod |-> 2,
      lookbackPeriod |-> 3, stdDevThreshold |-> Whole(1),
      gridLevels |-> 2, gridSpacing |-> Whole(50), basePrice |-> Whole(2)],
     [gridLevels |-> 2, basePrice |-> Whole(100)]}

StrategyInit ==
    /\ users = [u \in UserIds |-> User(NoSettings)]
    /\ orders = <<>>
    /\ positions = PositionTable(FALSE, <<>>)
    /\ now = 0
    /\ req = [r \in Reqs |-> NoRequest]
    /\ call = NoCall
    /\ backtest = <<>>
    /\ kelly = NoKelly
    /\ indicators = NoIndicators
    /\ \E data \in BarSeries : strategy = [NoStrategy EXCEPT !.data = data]

\* one of the evaluators of (symbol, data, options) is called
CallEvaluator(fn, options) ==
    /\ strategy.fn = ""
    /\ LET Outcome(outcome) ==
               [strategy EXCEPT !.fn = fn, !.options = options,
                                !.returned = (outcome.threw = ""),
                                !.threw = outcome.threw,
                                !.result = outcome.result,
                                !.evaluated = <<fn>>]
       IN  strategy' = Outcome(Evaluate(fn, strategy.data, options))
    /\ UNCHANGED <<backtest, users, orders, positions, now, req, call, kelly, indicators>>

CallExecuteTriangularArbitrageStrategy(prices, options) ==
    /\ strategy.fn = ""
    /\ LET Outcome(outcome) ==
               [strategy EXCEPT !.fn = "executeTriangularArbitrageStrategy",
                                !.options = options, !.prices = prices,
                                !.returned = (outcome.threw = ""),
                                !.threw = outcome.threw,
                                !.result = outcome.result,
                                !.evaluated = <<"executeTriangularArbitrageStrategy">>]
       IN  strategy' = Outcome(ExecuteTriangularArbitrageStrategy(
                                  <<"BTCUSDT", "ETHBTC", "ETHUSDT">>, prices, options))
    /\ UNCHANGED <<backtest, users, orders, positions, now, req, call, kelly, indicators>>

CallExecuteStrategy(strategyType, options) ==
    /\ strategy.fn = ""
    /\ LET Outcome(outcome) ==
               [strategy EXCEPT !.fn = "executeStrategy",
                                !.strategyType = strategyType,
                                !.options = options,
                                !.returned = (outcome.threw = ""),
                                !.threw = outcome.threw,
                                !.result = outcome.result,
                                !.evaluated = outcome.evaluated]
       IN  strategy' = Outcome(ExecuteStrategy(strategyType, strategy.data, options))
    /\ UNCHANGED <<backtest, users, orders, positions, now, req, call, kelly, indicators>>

\* StrategyController.executeStrategy on an active strategy of the user with
\* the stored type and parameters: 200 with the result, 500 on an error
ControllerExecuteStrategy(type, parameters) ==
    /\ strategy.fn = ""
    /\ LET Outcome(outcome) ==
               [strategy EXCEPT !.fn = "StrategyController.executeStrategy",
                                !.strategyType = type,
                                !.options = parameters,
                                !.returned = (outcome.threw = ""),
                                !.threw = outcome.threw,
                                !.result = outcome.result,
                                !.evaluated = outcome.evaluated,
                                !.status = IF outcome.threw = "" THEN 200 ELSE 500]
       IN  strategy' = Outcome(ExecuteStrategy(type, strategy.data, parameters))
    /\ UNCHANGED <<backtest, users, orders, positions, now, req, call, kelly, indicators>>

\* the names executeStrategy is called with: its tags, two of them in other
\* case, the names of the variants that are no tag, and the stored types
StrategyNext ==
    \/ \E fn \in {"executeScalpingStrategy", "executeDayTradingStrategy",
                  "executeSwingTradingStrategy", "executeGridTradingStrategy",
                  "executeMeanReversionStrategy"}, options \in StrategyOptions :
          CallEvaluator(fn, options)
    \/ \E btc \in {Whole(30000), PriceReadFails},
          ethBtc \in {Frac(1, 20), NotANumber},
          eth \in {Whole(1550), Frac(3015, 2), Whole(1500), NotANumber, PriceReadFails},
          options \in {<<>>, [minProfitThreshold |-> Whole(5)]} :
          CallExecuteTriangularArbitrageStrategy(
             [symbol \in {"BTCUSDT", "ETHBTC", "ETHUSDT"} |->
                 CASE symbol = "BTCUSDT" -> btc
                   [] symbol = "ETHBTC" -> ethBtc
                   [] symbol = "ETHUSDT" -> eth], options)
    \/ \E strategyType \in StrategyTypes \cup
                             {"mean_reversion", "SCALPING", "Grid_Trading", "grid",
                              "day-trading", "triangular-arbitrage", "triangular_arbitrage",
                              ""},
          options \in StrategyOptions :
          CallExecuteStrategy(strategyType, options)
    \/ \E type \in StrategyTypes, parameters \in StrategyOptions :
          ControllerExecuteStrategy(type, parameters)

StrategySpec == StrategyInit /\ [][StrategyNext]_vars

----------------------------------------------------------------------------
(* Properties of the strategies *)

\* C11: an evaluator called on a series with fewer bars than the longest
\* period it reads (the empty series included) returns HOLD with confidence
\* 0 and reason "Insufficient data" and does not throw.
C11_ShortSeriesHoldInsufficientData ==
    LET options == strategy.options
        Longest(S) == CHOOSE x \in S : \A y \in S : y <= x
        lookback ==
            CASE strategy.fn = "executeScalpingStrategy" ->
                    Longest({Option(options, "rsiPeriod", 14), Option(options, "macdSlow", 26)})
              [] strategy.fn = "executeDayTradingStrategy" ->
                    Longest({Option(options, "smaShort", 20), Option(options, "smaLong", 50),
                             Option(options, "rsiPeriod", 14)})
              [] strategy.fn = "executeSwingTradingStrategy" ->
                    Longest({Option(options, "emaShort", 12), Option(options, "emaLong", 26),
                             Option(options, "rsiPeriod", 14), Option(options, "atrPeriod", 14)})
              [] strategy.fn = "executeGridTradingStrategy" -> 1
              [] strategy.fn = "executeMeanReversionStrategy" ->
                    Longest({Option(options, "lookbackPeriod", 20),
                             Option(options, "rsiPeriod", 14)})
              [] OTHER -> 0
    IN  Len(strategy.data) < lookback =>
           /\ strategy.threw = ""
           /\ strategy.result.signal = "HOLD"
           /\ strategy.result.confidence = Whole(0)
           /\ strategy.result.reason = "Insufficient data"

\* C12: in every Signal an evaluator returns, the riskManagement levels are
\* on the profitable side of the price: stopLoss < price < takeProfit for
\* BUY, takeProfit < price < stopLoss for SELL.
C12_LevelsOnProfitableSide ==
    (/\ strategy.fn \in {"executeScalpingStrategy", "executeDayTradingStrategy",
                         "executeSwingTradingStrategy", "executeGridTradingStrategy",
                         "executeMeanReversionStrategy"}
     /\ strategy.returned
     /\ strategy.result.signal \in {"BUY", "SELL"}) =>
       LET levels == Field(strategy.result, "riskManagement")
           price == strategy.result.currentPrice
       IN  /\ levels # Missing
           /\ IF strategy.result.signal = "BUY"
              THEN /\ Compare("<", levels.stopLoss, price)
                   /\ Compare("<", price, levels.takeProfit)
              ELSE /\ Compare("<", levels.takeProfit, price)
                   /\ Compare("<", price, levels.stopLoss)

\* C13: a rule-based evaluator combines its votes by the threshold table:
\* HOLD has confidence 0 and BUY and SELL a confidence in 0.6-0.7 or in
\* 0.8-0.9; for the two votes of the scalping evaluator, two votes of one
\* direction give that action with confidence in 0.8-0.9, one directional
\* vote next to a neutral one gives that action with confidence in 0.6-0.7,
\* and no vote or opposite votes give HOLD.
C13_VotesCombinedByThresholdTable ==
    (/\ strategy.fn \in {"executeScalpingStrategy", "executeDayTradingStrategy",
                         "executeSwingTradingStrategy", "executeGridTradingStrategy",
                         "executeMeanReversionStrategy"}
     /\ strategy.returned
     /\ strategy.result.reason # "Insufficient data") =>
       LET signal == strategy.result.signal
           confidence == strategy.result.confidence
           Within(low, high) == /\ Compare(">=", confidence, low)
                                /\ Compare("<=", confidence, high)
           strong == Within(Frac(8, 10), Frac(9, 10))
           weak == Within(Frac(6, 10), Frac(7, 10))
       IN  /\ IF signal = "HOLD" THEN confidence = Whole(0) ELSE strong \/ weak
           /\ strategy.fn = "executeScalpingStrategy" =>
                 LET votes == <<strategy.result.indicators.rsiSignal,
                                strategy.result.indicators.macdSignal>>
                 IN  IF votes[1] = votes[2] /\ votes[1] # "HOLD"
                     THEN signal = votes[1] /\ strong
                     ELSE IF votes[1] # "HOLD" /\ votes[2] = "HOLD"
                     THEN signal = votes[1] /\ weak
                     ELSE IF votes[1] = "HOLD" /\ votes[2] # "HOLD"
                     THEN signal = votes[2] /\ weak
                     ELSE signal = "HOLD"

\* the tags executeStrategy recognizes
StrategyTags ==
    {"scalping", "day_trading", "swing_trading", "grid_trading", "mean_reversion"}

\* C14: executeStrategy called with a name that is none of its tags fails
\* with the unknown-strategy error, calls no evaluator and returns no Signal.
C14_UnknownNameFails ==
    (/\ strategy.fn = "executeStrategy"
     /\ ToLowerCase(strategy.strategyType) \notin StrategyTags) =>
       /\ strategy.threw = "Unknown strategy type"
       /\ ~strategy.returned
       /\ strategy.evaluated = <<>>
       /\ strategy.result = <<>>

\* executeStrategy was called with the variant name "grid" on MaxBars bars
\* and failed
C14_Witness ==
    /\ strategy.fn = "executeStrategy"
    /\ strategy.strategyType = "grid"
    /\ Len(strategy.data) = MaxBars
    /\ strategy.threw = "Unknown strategy type"
    /\ strategy.evaluated = <<>>

\* C15: each of the six variants is selected by its name through
\* executeStrategy, which then returns the Signal of the evaluator of that
\* variant; and every type a Strategy record can store is dispatched.
C15_EveryVariantAndStoredTypeDispatched ==
    LET tag == ToLowerCase(strategy.strategyType)
        variant ==
            CASE tag = "scalping" -> "executeScalpingStrategy"
              [] tag \in {"day_trading", "day-trading"} -> "executeDayTradingStrategy"
              [] tag \in {"swing_trading", "swing-trading"} -> "executeSwingTradingStrategy"
              [] tag \in {"grid_trading", "grid"} -> "executeGridTradingStrategy"
              [] tag \in {"mean_reversion", "mean-reversion"} -> "executeMeanReversionStrategy"
              [] tag \in {"triangular_arbitrage", "triangular-arbitrage", "arbitrage"} ->
                    "executeTriangularArbitrageStrategy"
              [] OTHER -> ""
    IN  /\ (strategy.fn = "executeStrategy" /\ variant # "") =>
              /\ strategy.evaluated = <<variant>>
              /\ variant # "executeTriangularArbitrageStrategy" =>
                    /\ strategy.threw = Evaluate(variant, strategy.data, strategy.options).threw
                    /\ strategy.result = Evaluate(variant, strategy.data, strategy.options).result
        /\ strategy.fn = "StrategyController.executeStrategy" =>
              /\ strategy.strategyType \in StrategyTypes
              /\ strategy.evaluated # <<>>
              /\ strategy.threw # "Unknown strategy type"

\* C22: when the price of one of the three symbols cannot be obtained (the
\* read fails, or the read gives no number), executeTriangularArbitrageStrategy
\* returns HOLD with the reason that reports the missing price, not
\* ARBITRAGE and not the reason of a completed search, and does not throw.
C22_MissingPriceHoldsWithDiagnostic ==
    (/\ strategy.fn = "executeTriangularArbitrageStrategy"
     /\ \E symbol \in DOMAIN strategy.prices :
           strategy.prices[symbol] \in {PriceReadFails, NotANumber}) =>
       /\ strategy.returned
       /\ strategy.threw = ""
       /\ strategy.result.signal = "HOLD"
       /\ strategy.result.reason = "Error getting prices"

\* C23: with the three prices present, executeTriangularArbitrageStrategy
\* returns ARBITRAGE exactly when ((1 / BTCUSDT) / ETHBTC * ETHUSDT - 1) * 100
\* is strictly greater than minProfitThreshold, and HOLD otherwise; for
\* 30000, 0.05, 1550 and the threshold 0.5 the opportunity reported has the
\* profit 10/3 (the factor 1550/1500).
C23_ArbitrageIffProfitAboveThreshold ==
    (/\ strategy.fn = "executeTriangularArbitrageStrategy"
     /\ \A symbol \in DOMAIN strategy.prices :
           IsFrac(strategy.prices[symbol]) /\ strategy.prices[symbol].n > 0) =>
       LET a == strategy.prices["BTCUSDT"]
           b == strategy.prices["ETHBTC"]
           c == strategy.prices["ETHUSDT"]
           threshold == IF "minProfitThreshold" \in DOMAIN strategy.options
                        THEN strategy.options.minProfitThreshold ELSE Frac(1, 2)
           \* the factor is up / down
           up == c.n * a.d * b.d
           down == c.d * a.n * b.n
           above == 100 * (up - down) * threshold.d > threshold.n * down
       IN  /\ strategy.returned
           /\ strategy.result.signal = IF above THEN "ARBITRAGE" ELSE "HOLD"
           /\ above =>
                 /\ Len(strategy.result.opportunities) = 1
                 /\ strategy.result.bestOpportunity = strategy.result.opportunities[1]
                 /\ LET profit == strategy.result.bestOpportunity.profit
                    IN  profit.n * down = 100 * (up - down) * profit.d
           /\ (a = Whole(30000) /\ b = Frac(1, 20) /\ c = Whole(1550)
                 /\ threshold = Frac(1, 2)) =>
                 /\ strategy.result.signal = "ARBITRAGE"
                 /\ strategy.result.bestOpportunity.profit = [t |-> "num", n |-> 10, d |-> 3]

\* the prices 30000, 0.05 and 1550 were evaluated against the threshold 0.5
\* and the opportunity was reported
C23_Witness ==
    /\ strategy.fn = "executeTriangularArbitrageStrategy"
    /\ strategy.options = <<>>
    /\ strategy.prices["BTCUSDT"] = Whole(30000)
    /\ strategy.prices["ETHBTC"] = Frac(1, 20)
    /\ strategy.prices["ETHUSDT"] = Whole(1550)
    /\ strategy.result.signal = "ARBITRAGE"

\* C24: executeGridTradingStrategy builds exactly gridLevels levels, level i
\* with buyPrice = base * (1 - i * spacing / 100) and sellPrice =
\* base * (1 + i * spacing / 100); it returns BUY (SELL) only when the
\* current price is within 0.1% of itself from the buy (sell) price of a
\* level, and HOLD otherwise.
C24_GridLevelsAndTolerance ==
    (strategy.fn = "executeGridTradingStrategy" /\ strategy.returned) =>
       LET price == Whole(strategy.data[Len(strategy.data)].close)
           N == Option(strategy.options, "gridLevels", 10)
           spacing == Option(strategy.options, "gridSpacing", Whole(1))
           given == Option(strategy.options, "basePrice", Null)
           base == IF given = Null THEN price ELSE given
           levels == strategy.result.gridLevels
           \* level = base * (100 * spacing.d + sign * i * spacing.n) / (100 * spacing.d)
           IsAt(level, i, sign) ==
               level.n * base.d * 100 * spacing.d
                  = level.d * base.n * (100 * spacing.d + sign * i * spacing.n)
           \* |price - level| / price < 0.1 / 100
           Near(level) ==
               LET gap == price.n * level.d - level.n * price.d
               IN  1000 * (IF gap < 0 THEN -gap ELSE gap) * price.d < price.n * price.d * level.d
       IN  /\ Len(levels) = N
           /\ \A i \in 1..N :
                 /\ levels[i].level = i
                 /\ IsAt(levels[i].buyPrice, i, -1)
                 /\ IsAt(levels[i].sellPrice, i, 1)
           /\ strategy.result.signal \in {"BUY", "SELL", "HOLD"}
           /\ strategy.result.signal = "BUY" => \E i \in 1..N : Near(levels[i].buyPrice)
           /\ strategy.result.signal = "SELL" => \E i \in 1..N : Near(levels[i].sellPrice)

\* C25: on a non-empty series executeMeanReversionStrategy returns SELL
\* exactly when the z-score of the last close against the mean and the
\* population standard deviation of the last lookbackPeriod closes is above
\* stdDevThreshold, BUY exactly when it is below -stdDevThreshold, and HOLD
\* with confidence 0 otherwise (also when the standard deviation is 0); the
\* confidence of SELL is 0.8 when the RSI of the last bar is above 70 and of
\* BUY when it is below 30, and 0.6 when it is not.
C25_ZScoreWithRsiConfirmation ==
    (/\ strategy.fn = "executeMeanReversionStrategy"
     /\ strategy.returned
     /\ strategy.data # <<>>) =>
       LET closes == Closes(strategy.data)
           lookbackPeriod == Option(strategy.options, "lookbackPeriod", 20)
           threshold == Option(strategy.options, "stdDevThreshold", Whole(2))
           first == IF Len(closes) > lookbackPeriod THEN Len(closes) - lookbackPeriod + 1
                    ELSE 1
           recent == SubSeq(closes, first, Len(closes))
           n == Len(recent)
           \* n * (close - mean), and n^3 * variance
           offsets == [i \in DOMAIN recent |-> n * recent[i] - SumSeq(recent)]
           last == offsets[n]
           spread == SumSeq([i \in DOMAIN offsets |-> offsets[i] * offsets[i]])
           \* |z-score| > stdDevThreshold for a standard deviation above 0
           beyond == /\ spread > 0
                     /\ n * last * last * threshold.d * threshold.d
                           > threshold.n * threshold.n * spread
           \* the RSI of the last bar, when the series is long enough for one
           readings == RSI(Option(strategy.options, "rsiPeriod", 14), closes)
           confirms(op, level) ==
               /\ readings # <<>>
               /\ Compare(op, readings[Len(readings)], Whole(level))
           signal == strategy.result.signal
           confidence == strategy.result.confidence
       IN  /\ signal = "SELL" <=> (beyond /\ last > 0)
           /\ signal = "BUY" <=> (beyond /\ last < 0)
           /\ signal \in {"SELL", "BUY", "HOLD"}
           /\ signal = "HOLD" => confidence = Whole(0)
           /\ signal = "SELL" =>
                 confidence = IF confirms(">", 70) THEN Frac(8, 10) ELSE Frac(6, 10)
           /\ signal = "BUY" =>
                 confidence = IF confirms("<", 30) THEN Frac(8, 10) ELSE Frac(6, 10)

\* C26: on a series that is long enough for the long period, the trend vote
\* of the day-trading (swing-trading) variant is BULLISH exactly when the
\* short-period SMA (EMA) of the last bar is above its long-period SMA (EMA),
\* the bar carrying both; and whenever the short average is above the long
\* one and the RSI of the last bar is below 30 (40), the variant returns BUY
\* with confidence at least 0.7.
C26_TrendVoteComparesShortAndLong ==
    (/\ strategy.fn \in {"executeDayTradingStrategy", "executeSwingTradingStrategy"}
     /\ strategy.returned
     /\ "indicators" \in DOMAIN strategy.result) =>
       LET day == strategy.fn = "executeDayTradingStrategy"
           closes == Closes(strategy.data)
           short == IF day THEN Option(strategy.options, "smaShort", 20)
                    ELSE Option(strategy.options, "emaShort", 12)
           long == IF day THEN Option(strategy.options, "smaLong", 50)
                   ELSE Option(strategy.options, "emaLong", 26)
           Average(period) ==
               IF day THEN SMA(period, closes)
               ELSE EMA(period, [i \in DOMAIN closes |-> Whole(closes[i])])
           Last(values) == values[Len(values)]
           above == Compare(">", Last(Average(short)), Last(Average(long)))
           readings == RSI(Option(strategy.options, "rsiPeriod", 14), closes)
           oversold ==
               /\ readings # <<>>
               /\ Compare("<", Last(readings), Whole(IF day THEN 30 ELSE 40))
           carried == IF day THEN strategy.result.indicators.smaLong
                      ELSE strategy.result.indicators.emaLong
       IN  (Len(closes) >= long /\ Len(closes) >= short) =>
              /\ carried = Last(Average(long))
              /\ strategy.result.indicators.trendSignal = "BULLISH" <=> above
              /\ (above /\ oversold) =>
                    /\ strategy.result.signal = "BUY"
                    /\ Compare(">=", strategy.result.confidence, Frac(7, 10))

\* C27: a failure inside the gate never yields an accepted verdict.  A
\* check that runs when its repository read fails (the user row is gone, the
\* positions query is rejected) or when the symbol of the order is missing
\* reports valid = false; validateOrderRisk returns valid = false when the
\* user is not found; and the request of such a check or verdict ends as a
\* rejection, in that step or later, without ever recording an order.
C27_FailureInsideGateRejects ==
    [][\A r \in Reqs :
          req'[r] # req[r] =>
             LET gone == ~users[req[r].userId].exists
             IN  /\ (req[r].pc = "risk" /\ gone) =>
                       /\ ~req'[r].riskValidation.valid
                       /\ req'[r].pc = "done" /\ req'[r].response.status = 400
                 /\ (req[r].pc = "positionSize" /\ gone) =>
                       ~req'[r].validations.positionSize.valid
                 /\ (req[r].pc = "dailyLoss" /\ gone) =>
                       ~req'[r].validations.dailyLoss.valid
                 /\ (req[r].pc = "monthlyLoss" /\ gone) =>
                       ~req'[r].validations.monthlyLoss.valid
                 /\ (req[r].pc = "leverage" /\ ~req[r].body.symbol.defined) =>
                       ~req'[r].validations.marketHours.valid
                 /\ (req[r].pc = "correlation" /\ ~positions.isOpenColumn) =>
                       ~req'[r].correlationValidation.valid
                 /\ (\E c \in FailedChecks(r)' : c.value = Undefined) =>
                       /\ req'[r].pc \notin {"correlation", "create"}
                       /\ req'[r].pc = "done" => req'[r].response.status = 400
                       /\ \A i \in DOMAIN orders' : orders'[i].by # r]_vars

\* a request whose user row was deleted before its position size check ended
\* as a rejection and recorded no order
C27_Witness ==
    \E r \in Reqs :
       /\ req[r].pc = "done"
       /\ req[r].validations.positionSize = CheckError("Error validando tamano de posicion")
       /\ ~req[r].riskValidation.valid
       /\ req[r].response.status = 400
       /\ ~CreatedBy(r)

----------------------------------------------------------------------------
(***************************************************************************)
(* OrderController.getOrderById, createOrder, updateOrder and cancelOrder  *)
(* over the Order table. The table holds for each id the columns the       *)
(* handlers test or a request body can set: user_id, status, quantity.     *)
(* Every route is behind authenticateToken, so req.user.userId is a user   *)
(* of the system; req.params.id and req.body are whatever the client       *)
(* sends, no route validates them. updateOrder and cancelOrder read the    *)
(* order, test its status and save it in separate awaits, so requests      *)
(* interleave between the read and the save.                               *)
(***************************************************************************)

\* Order.findOne({where: {id, user_id: userId}}): an instance holding a
\* copy of the row, or null
FindOne(table, id, userId) ==
    IF id \in DOMAIN table /\ table[id].user_id = userId
    THEN [found |-> TRUE, id |-> id, dataValues |-> table[id]]
    ELSE [found |-> FALSE]

\* the table when the first request arrives: order 1 of user 1 in any
\* status of the ENUM, order 2 of the last user pending
OrdersInit ==
    /\ users = [u \in UserIds |-> User(NoSettings)]
    /\ \E status \in {"pending", "filled", "partially_filled", "cancelled",
                      "rejected", "expired"} :
          orders = <<[user_id |-> 1, status |-> status, quantity |-> 1],
                     [user_id |-> MaxUsers, status |-> "pending", quantity |-> 1]>>
    /\ positions = PositionTable(FALSE, <<>>)
    /\ now = 0
    /\ req = [r \in Reqs |-> NoRequest]
    /\ call = NoCall
    /\ backtest = <<>>
    /\ kelly = NoKelly
    /\ indicators = NoIndicators
    /\ strategy = NoStrategy

\* GET /api/orders/:id
GetOrderById(r, userId, id) ==
    /\ req[r] = NoRequest
    /\ LET Answer(order) ==
              [handler |-> "getOrderById", pc |-> "done", userId |-> userId, id |-> id,
               response |-> IF order.found
                            THEN [status |-> 200, order |-> <<order.dataValues>>]
                            ELSE [status |-> 404, order |-> <<>>]]
       IN  req' = [req EXCEPT ![r] = Answer(FindOne(orders, id, userId))]
    /\ UNCHANGED <<backtest, indicators, strategy, users, orders, positions, now, call,
                   kelly>>

\* POST /api/orders: orderData = {...req.body, user_id: req.user.userId},
\* then the risk gate, whose verdict is an input here, then
\* Order.create(orderData); status defaults to 'pending'
CreateOrder(r, userId, body, accepted) ==
    /\ req[r] = NoRequest
    /\ LET orderData == [f \in DOMAIN body \cup {"user_id"} |->
                            IF f = "user_id" THEN userId ELSE body[f]]
           Create(row) ==
              /\ orders' = Append(orders, row)
              /\ req' = [req EXCEPT ![r] =
                            [handler |-> "createOrder", pc |-> "done", userId |-> userId,
                             id |-> Len(orders) + 1,
                             response |-> [status |-> 201, order |-> <<row>>]]]
       IN  IF accepted
           THEN Create([user_id |-> orderData.user_id, status |-> "pending",
                        quantity |-> orderData.quantity])
           ELSE /\ req' = [req EXCEPT ![r] =
                              [handler |-> "createOrder", pc |-> "done",
                               userId |-> userId, id |-> 0,
                               response |-> [status |-> 400, order |-> <<>>]]]
                /\ UNCHANGED orders
    /\ UNCHANGED <<backtest, indicators, strategy, users, positions, now, call, kelly>>

\* PUT /api/orders/:id up to `await order.update(updateData)`: the read,
\* the 404, the status test and its 400
UpdateOrder(r, userId, id, updateData) ==
    /\ req[r] = NoRequest
    /\ LET Found(order) ==
              IF ~order.found
              THEN [handler |-> "updateOrder", pc |-> "done", userId |-> userId,
                    id |-> id, response |-> [status |-> 404, order |-> <<>>]]
              ELSE IF order.dataValues.status \notin {"pending", "partially_filled"}
              THEN [handler |-> "updateOrder", pc |-> "done", userId |-> userId,
                    id |-> id, response |-> [status |-> 400, order |-> <<>>]]
              ELSE [handler |-> "updateOrder", pc |-> "update", userId |-> userId,
                    id |-> id, order |-> order, values |-> updateData]
       IN  req' = [req EXCEPT ![r] = Found(FindOne(orders, id, userId))]
    /\ UNCHANGED <<backtest, indicators, strategy, users, orders, positions, now, call,
                   kelly>>

\* DELETE /api/orders/:id up to `await order.update({status: 'cancelled'})`
CancelOrder(r, userId, id) ==
    /\ req[r] = NoRequest
    /\ LET Found(order) ==
              IF ~order.found
              THEN [handler |-> "cancelOrder", pc |-> "done", userId |-> userId,
                    id |-> id, response |-> [status |-> 404, order |-> <<>>]]
              ELSE IF order.dataValues.status \notin {"pending", "partially_filled"}
              THEN [handler |-> "cancelOrder", pc |-> "done", userId |-> userId,
                    id |-> id, response |-> [status |-> 400, order |-> <<>>]]
              ELSE [handler |-> "cancelOrder", pc |-> "update", userId |-> userId,
                    id |-> id, order |-> order, values |-> [status |-> "cancelled"]]
       IN  req' = [req EXCEPT ![r] = Found(FindOne(orders, id, userId))]
    /\ UNCHANGED <<backtest, indicators, strategy, users, orders, positions, now, call,
                   kelly>>

\* order.update(values) of either handler reaching the database: the
\* instance sets the values, and saves the attributes that differ from the
\* copy it read, WHERE id = order.id. cancelOrder answers after it,
\* updateOrder reads the order again first
OrderUpdate(r) ==
    /\ req[r].pc = "update"
    /\ LET Saved(row, order, values) ==
              [f \in DOMAIN row |->
                  IF f \in DOMAIN values /\ values[f] # order.dataValues[f]
                  THEN values[f] ELSE row[f]]
       IN  orders' = [orders EXCEPT ![req[r].id] = Saved(@, req[r].order, req[r].values)]
    /\ req' = [req EXCEPT ![r] =
                  IF @.handler = "cancelOrder"
                  THEN [handler |-> @.handler, pc |-> "done", userId |-> @.userId,
                        id |-> @.id, response |-> [status |-> 200, order |-> <<>>]]
                  ELSE [handler |-> @.handler, pc |-> "findByPk", userId |-> @.userId,
                        id |-> @.id]]
    /\ UNCHANGED <<backtest, indicators, strategy, users, positions, now, call, kelly>>

\* updatedOrder = await Order.findByPk(id): no user_id in the query
FindByPk(r) ==
    /\ req[r].pc = "findByPk"
    /\ req' = [req EXCEPT ![r] =
                  [handler |-> @.handler, pc |-> "done", userId |-> @.userId,
                   id |-> @.id,
                   response |-> [status |-> 200, order |-> <<orders[@.id]>>]]]
    /\ UNCHANGED <<backtest, indicators, strategy, users, orders, positions, now, call,
                   kelly>>

\* the ids a client asks for: the orders of the table and one that is none;
\* the bodies: a quantity, a status, an owner
OrdersNext ==
    \/ \E r \in Reqs, userId \in UserIds, id \in 1..(Len(orders) + 1) :
          GetOrderById(r, userId, id)
    \/ \E r \in Reqs, userId \in UserIds, accepted \in BOOLEAN,
          body \in {[quantity |-> 1]} \cup
                   {[quantity |-> 2, user_id |-> u] : u \in UserIds} :
          CreateOrder(r, userId, body, accepted)
    \/ \E r \in Reqs, userId \in UserIds, id \in 1..(Len(orders) + 1),
          updateData \in {[quantity |-> 2], [status |-> "filled"]} \cup
                         {[user_id |-> u] : u \in UserIds} :
          UpdateOrder(r, userId, id, updateData)
    \/ \E r \in Reqs, userId \in UserIds, id \in 1..(Len(orders) + 1) :
          CancelOrder(r, userId, id)
    \/ \E r \in Reqs : OrderUpdate(r)
    \/ \E r \in Reqs : FindByPk(r)

OrdersSpec == OrdersInit /\ [][OrdersNext]_vars

----------------------------------------------------------------------------
(* Properties of the order lifecycle *)

\* C28: updateOrder and cancelOrder change an order only while its status
\* is pending or partially_filled: no step changes a field of an order
\* whose status is filled, cancelled, rejected or expired, and an
\* updateOrder or cancelOrder that reads its own order in such a status is
\* refused with 400, whatever the interleaving of the requests.
C28_TerminalOrdersNeverChange ==
    [][/\ \A id \in DOMAIN orders :
             orders[id].status \notin {"pending", "partially_filled"}
                => orders'[id] = orders[id]
       /\ \A r \in Reqs :
             (/\ req[r] = NoRequest
              /\ req'[r] # NoRequest
              /\ req'[r].handler \in {"updateOrder", "cancelOrder"}
              /\ req'[r].id \in DOMAIN orders
              /\ orders[req'[r].id].user_id = req'[r].userId
              /\ orders[req'[r].id].status \notin {"pending", "partially_filled"})
                => /\ req'[r].pc = "done"
                   /\ req'[r].response.status = 400]_vars

\* C30: orders are isolated per user: no step changes the user_id of an
\* order, a request changes only orders its user owns, a created order is
\* owned by the authenticated requester whatever the body says, and every
\* order a request is answered with is owned by the requester.
C30_OrdersIsolatedPerUser ==
    [][/\ \A id \in DOMAIN orders : orders'[id].user_id = orders[id].user_id
       /\ \A r \in Reqs :
             req'[r] # req[r] =>
                /\ \A id \in DOMAIN orders :
                      orders'[id] # orders[id] => orders[id].user_id = req'[r].userId
                /\ \A id \in DOMAIN orders' \ DOMAIN orders :
                      orders'[id].user_id = req'[r].userId
                /\ req'[r].pc = "done" =>
                      \A i \in DOMAIN req'[r].response.order :
                         req'[r].response.order[i].user_id = req'[r].userId]_vars

----------------------------------------------------------------------------
(***************************************************************************)
(* StrategyController.runBacktest: the loop over the bars from index 50    *)
(* on. backtest holds the locals at the head of the loop (i, balance,      *)
(* position, trades, maxBalance, maxDrawdown) and, of the last iteration,  *)
(* the slice handed to executeStrategy and the signal it answered. The     *)
(* series needs more than 50 bars for one iteration, more than the         *)
(* evaluators of the model can take, so the signal awaited from            *)
(* tradingStrategyService.executeStrategy is an input of the step. The     *)
(* bars are klines of the exchange: ascending openTime, prices above 0.    *)
(* The statistics returned after the loop read the locals and change none. *)
(***************************************************************************)
MaxSteps == 3
FirstStep == 50

\* const currentData = marketData.slice(0, i + 1)
CurrentDataMutant(marketData, i) == marketData
CurrentData(marketData, i) == SubSeq(marketData, 1, i + 1)

\* let balance = 10000; let position = null; const trades = []; ...; i = 50
BacktestInit ==
    /\ users = [u \in UserIds |-> User(NoSettings)]
    /\ orders = <<>>
    /\ positions = PositionTable(FALSE, <<>>)
    /\ now = 0
    /\ req = [r \in Reqs |-> NoRequest]
    /\ call = NoCall
    /\ kelly = NoKelly
    /\ indicators = NoIndicators
    /\ strategy = NoStrategy
    /\ \E closes \in UNION {[1..n -> {1, 2, 3}] : n \in 0..MaxSteps} :
          backtest =
             [marketData |->
                 [k \in 1..(FirstStep + Len(closes)) |->
                     [openTime |-> k - 1,
                      close |-> IF k <= FirstStep THEN Whole(1)
                                ELSE Whole(closes[k - FirstStep])]],
              i |-> FirstStep, balance |-> Whole(10000), position |-> Null,
              trades |-> <<>>, maxBalance |-> Whole(10000), maxDrawdown |-> Whole(0),
              currentData |-> <<>>, signal |-> ""]

\* one iteration of the loop: the slice, the strategy's signal, the
\* position opened or closed, the drawdown metrics, i++
RunBacktest(signal) ==
    /\ backtest.i < Len(backtest.marketData)
    /\ LET Metrics(b, maxBalance) ==
              LET drawdown == Arith("/", Arith("-", maxBalance, b.balance), maxBalance)
              IN  [b EXCEPT !.maxBalance = maxBalance,
                            !.maxDrawdown = IF Compare(">", drawdown, @)
                                            THEN drawdown ELSE @,
                            !.i = @ + 1]
           Balance(b) ==
              Metrics(b, IF Compare(">", b.balance, b.maxBalance)
                         THEN b.balance ELSE b.maxBalance)
           Close(b, position, exitPrice, exitTime, profit) ==
              [b EXCEPT !.balance = Arith("+", @, profit),
                        !.trades = Append(@, [entryPrice |-> position.entryPrice,
                                              exitPrice |-> exitPrice,
                                              profit |-> profit,
                                              entryTime |-> position.entryTime,
                                              exitTime |-> exitTime]),
                        !.position = Null]
           Process(b, currentPrice, openTime) ==
              IF signal = "BUY" /\ b.position = Null
              THEN [b EXCEPT !.position =
                       [entryPrice |-> currentPrice, entryTime |-> openTime,
                        size |-> Arith("/", Arith("*", b.balance, Frac(95, 100)),
                                       currentPrice)]]
              ELSE IF signal = "SELL" /\ b.position # Null
              THEN Close(b, b.position, currentPrice, openTime,
                         Arith("*", Arith("-", currentPrice, b.position.entryPrice),
                               b.position.size))
              ELSE b
           Iterate(currentData) ==
              Balance(Process([backtest EXCEPT !.currentData = currentData,
                                               !.signal = signal],
                              currentData[Len(currentData)].close,
                              currentData[Len(currentData)].openTime))
       IN  backtest' = Iterate(CurrentData(backtest.marketData, backtest.i))
    /\ UNCHANGED <<users, orders, positions, now, req, call, kelly, indicators, strategy>>

BacktestNext ==
    \E signal \in {"BUY", "SELL", "HOLD", "ARBITRAGE"} : RunBacktest(signal)

BacktestSpec == BacktestInit /\ [][BacktestNext]_vars

\* C29: during runBacktest at most one simulated position is open: a BUY
\* opens a position, at the price and time of bar i, only when none is
\* open; a position is closed only by a SELL, which records exactly one
\* trade whose entry bar precedes its exit bar; the balance changes only
\* when a trade is closed and stays strictly positive; and the strategy at
\* step i is handed bars 0..i and nothing later.
C29_OnePositionNoLookAhead ==
    [][LET bar == backtest.marketData[backtest.i + 1]
           Step(b, n) ==
              /\ n.i = b.i + 1
              /\ n.currentData = SubSeq(b.marketData, 1, b.i + 1)
              /\ \A k \in DOMAIN n.currentData :
                    n.currentData[k].openTime <= bar.openTime
              /\ n.position # b.position =>
                    \/ /\ n.signal = "BUY"
                       /\ b.position = Null
                       /\ n.position # Null
                       /\ n.position.entryTime = bar.openTime
                       /\ n.position.entryPrice = bar.close
                    \/ /\ n.signal = "SELL"
                       /\ b.position # Null
                       /\ n.position = Null
              /\ (n.signal = "BUY" /\ b.position = Null) => n.position # Null
              /\ (n.signal = "SELL" /\ b.position # Null) => n.position = Null
              /\ n.trades # b.trades =>
                    /\ n.signal = "SELL"
                    /\ b.position # Null
                    /\ n.position = Null
                    /\ SubSeq(n.trades, 1, Len(b.trades)) = b.trades
                    /\ Len(n.trades) = Len(b.trades) + 1
                    /\ n.trades[Len(n.trades)].entryTime = b.position.entryTime
                    /\ n.trades[Len(n.trades)].exitTime = bar.openTime
                    /\ n.trades[Len(n.trades)].entryTime < n.trades[Len(n.trades)].exitTime
              /\ (n.signal = "SELL" /\ b.position # Null) => n.trades # b.trades
              /\ n.balance # b.balance => Len(n.trades) = Len(b.trades) + 1
              /\ Compare(">", n.balance, Whole(0))
       IN  Step(backtest, backtest')]_vars

\* a position bought at 3 was sold at 1: one trade, a loss, and a balance
\* still above 0
C29_Witness ==
    /\ Len(backtest.trades) = 1
    /\ backtest.trades[1].entryPrice = Whole(3)
    /\ backtest.trades[1].exitPrice = Whole(1)
    /\ backtest.position = Null
    /\ Compare("<", backtest.balance, Whole(10000))

====
